---- MODULE Spec2Model ----
(***************************************************************************)
(* Verification model of the MCP gateway (JaD1ng/mcp-server).              *)
(*                                                                         *)
(*  - SpecGateway : internal/multiplexer/server.go, the HTTP multiplexer   *)
(*                  (routing table, Start, Shutdown, request dispatch).    *)
(*  - SpecSession : the Superset client (package superset, client.go):     *)
(*                  login state and CSRF token cache under an RWMutex.     *)
(***************************************************************************)
EXTENDS Integers, FiniteSets, Sequences, TLC

None == "none"

(***************************************************************************)
(* Bounds of the model.                                                    *)
(***************************************************************************)
\* AddService/RemoveService calls made on one Server.
MaxGwOps == 4

(***************************************************************************)
(* Gateway: universe.                                                      *)
(***************************************************************************)
\* rootPath, server.go:27
rootPath == "/"

\* core.Service instances.  Two of them share an endpoint, as two adapters
\* configured with the same path do.
Adapters == {"promA", "promB", "superset"}

\* Service.GetEndpoint(): fixed for an adapter's lifetime.
GetEndpoint(a) == IF a = "superset" THEN "/superset" ELSE "/prometheus"

\* Request paths: the root, the endpoints, and a path nobody owns.
Paths == {rootPath, "/prometheus", "/superset", "/unknown"}

Endpoints == {GetEndpoint(a) : a \in Adapters}

VARIABLES
    services,     \* Server.services: endpoint -> adapter (None: no entry)
    startPc,      \* position of the goroutine running Server.Start
    servicesCopy, \* Start's local snapshot of s.services
    muxRoutes,    \* the ServeMux built by Start: pattern -> captured adapter
    serverSet,    \* s.server != nil
    listening,    \* the http.Server is accepting connections
    serverShut,   \* http.Server.Shutdown has been called on s.server
    shutPc,       \* position of the caller of Server.Shutdown
    shutCopy,     \* Shutdown's local snapshot of the mounted adapters
    shutClosed,   \* adapter -> what its Close() returned to Shutdown
    closeCalls,   \* adapter -> number of Close() calls it has received
    gwOps,        \* AddService/RemoveService calls so far
    lastReq,      \* the latest request served, with how it was dispatched
    addedLive,    \* adapters added by AddService while the server was serving
    lastReplaced  \* endpoint -> adapter overwritten by the latest AddService there

gwVars == << services, startPc, servicesCopy, muxRoutes, serverSet, listening,
             serverShut, shutPc, shutCopy, shutClosed, closeCalls, gwOps,
             lastReq, addedLive, lastReplaced >>

\* The Superset client (declared here, specified below).
VARIABLES
    loggedIn,    \* Client.loggedIn
    csrfCache,   \* Client.csrfCache: [token, expiresAt]
    mu,          \* Client.mu (sync.RWMutex): [writer, readers]
    now,         \* time.Now(), in minutes
    pc,          \* caller -> position in the code
    call,        \* caller -> the locals of its current (or last) call
    loginResp,   \* the login POST response being classified (NoResp: none)
    cacheLog,    \* every completed write of csrfCache, in order
    fetchCount,  \* login-page GETs issued by getCSRFToken
    fetchFails,  \* of these, how many ended in an error
    postCount,   \* login POSTs issued
    loginFails,  \* Login calls that returned an error
    callsMade    \* calls made on the client so far

ssVars == << loggedIn, csrfCache, mu, now, pc, call, loginResp, cacheLog,
             fetchCount, fetchFails, postCount, loginFails, callsMade >>

\* The service registry of package core (declared here, specified below).
VARIABLES
    serviceFactories,     \* kind -> registered factory (None: no entry)
    supportedTypesCache,  \* the cached listing, a slice
    cacheValid,           \* the cache-valid flag
    factoriesMutex,       \* sync.RWMutex: [writer, readers]
    rpc,                  \* thread -> position in the registry code
    rcall,                \* thread -> the locals of its current (or last) call
    nextBuf,              \* slices allocated so far (the next one's identity)
    regCalls              \* registry calls made so far

rgVars == << serviceFactories, supportedTypesCache, cacheValid, factoriesMutex,
             rpc, rcall, nextBuf, regCalls >>

\* Startup, initializeAndRegisterServices (declared here, specified below).
VARIABLES
    suCfg,        \* the loaded configuration: [enabled, shared]
    suPc,         \* position of the main goroutine
    worker,       \* kind -> position of the goroutine constructing it
    built,        \* kind -> outcome of core.CreateService (None: not run)
    conn,         \* kind -> outcome of the connectivity test (None: not run)
    serviceChan,  \* buffered channel of constructed adapters
    errorChan,    \* buffered channel of construction errors (by kind)
    chansClosed,  \* both channels have been closed
    suServices,   \* the adapters collected from serviceChan, in order
    suErrors,     \* the errors collected from errorChan, in order
    suIdx,        \* adapters handed to AddService so far
    suResult      \* what initializeAndRegisterServices returned (None: not yet)

suVars == << suCfg, suPc, worker, built, conn, serviceChan, errorChan,
             chansClosed, suServices, suErrors, suIdx, suResult >>

VARIABLES
    ioPc,         \* which exchange is in view: "idle", "tool", "db" or "sql"
    toolCall,     \* the tool call a handler was invoked with
    toolResult,   \* what the handler returned: (result, err)
    dbResp,       \* the backend's answer to the database-list request
    dbList,       \* what GetDatabases returned for it
    sqlResp,      \* the backend's answer to the SQL execution request
    sqlResult     \* what executeSQLInternal returned for it

ioVars == << ioPc, toolCall, toolResult, dbResp, dbList, sqlResp, sqlResult >>

NoRoutes == [p \in Endpoints |-> None]

NoReq == [path |-> None, to |-> None, mounted |-> None, replaced |-> None,
          live |-> FALSE, page |-> {}]

\* NewServer, server.go:58-66
GwInit ==
    /\ services = NoRoutes
    /\ startPc = "idle"
    /\ servicesCopy = NoRoutes
    /\ muxRoutes = NoRoutes
    /\ serverSet = FALSE
    /\ listening = FALSE
    /\ serverShut = FALSE
    /\ shutPc = "idle"
    /\ shutCopy = {}
    /\ shutClosed = [a \in Adapters |-> None]
    /\ closeCalls = [a \in Adapters |-> 0]
    /\ gwOps = 0
    /\ lastReq = NoReq
    /\ addedLive = {}
    /\ lastReplaced = NoRoutes

\* An AddService that closes the adapter it replaces.
AddServiceClosingReplaced(a) ==
    /\ gwOps < MaxGwOps
    /\ gwOps' = gwOps + 1
    /\ services' = [services EXCEPT ![GetEndpoint(a)] = a]
    /\ closeCalls' =
          IF services[GetEndpoint(a)] \notin {None, a}
          THEN [closeCalls EXCEPT ![services[GetEndpoint(a)]] = @ + 1]
          ELSE closeCalls
    /\ addedLive' = IF listening THEN addedLive \cup {a} ELSE addedLive \ {a}
    /\ lastReplaced' =
          [lastReplaced EXCEPT ![GetEndpoint(a)] =
              IF services[GetEndpoint(a)] \notin {None, a}
              THEN services[GetEndpoint(a)] ELSE None]
    /\ UNCHANGED << ioVars, ssVars, rgVars, suVars, shutClosed, startPc,
                    servicesCopy, muxRoutes, serverSet, listening,
                    serverShut, shutPc, shutCopy, lastReq >>

\* Server.AddService, server.go:128-137: s.services[endpoint] = service
\* under s.mu.Lock().
AddService(a) ==
    /\ gwOps < MaxGwOps
    /\ gwOps' = gwOps + 1
    /\ services' = [services EXCEPT ![GetEndpoint(a)] = a]
    /\ addedLive' = IF listening THEN addedLive \cup {a} ELSE addedLive \ {a}
    /\ lastReplaced' =
          [lastReplaced EXCEPT ![GetEndpoint(a)] =
              IF services[GetEndpoint(a)] \notin {None, a}
              THEN services[GetEndpoint(a)] ELSE None]
    /\ UNCHANGED << ioVars, ssVars, rgVars, suVars, shutClosed, startPc, servicesCopy, muxRoutes, serverSet, listening,
                    serverShut, shutPc, shutCopy, closeCalls, lastReq >>

\* A RemoveService that drops the mapping without closing the adapter.
RemoveServiceNoClose(p) ==
    /\ gwOps < MaxGwOps
    /\ gwOps' = gwOps + 1
    /\ services' = [services EXCEPT ![p] = None]
    /\ addedLive' = addedLive \ {services[p]}
    /\ lastReplaced' = [lastReplaced EXCEPT ![p] = None]
    /\ UNCHANGED << ioVars, ssVars, rgVars, suVars, shutClosed, closeCalls, startPc,
                    servicesCopy, muxRoutes, serverSet, listening, serverShut,
                    shutPc, shutCopy, lastReq >>

\* Server.RemoveService, server.go:140-149: under s.mu.Lock(), Close() the
\* adapter found at endpoint and delete the entry; nothing when absent.
RemoveService(p) ==
    /\ gwOps < MaxGwOps
    /\ gwOps' = gwOps + 1
    /\ IF services[p] # None
       THEN /\ closeCalls' = [closeCalls EXCEPT ![services[p]] = @ + 1]
            /\ services' = [services EXCEPT ![p] = None]
            /\ addedLive' = addedLive \ {services[p]}
            /\ lastReplaced' = [lastReplaced EXCEPT ![p] = None]
       ELSE UNCHANGED << closeCalls, services, addedLive, lastReplaced >>
    /\ UNCHANGED << ioVars, ssVars, rgVars, suVars, shutClosed, startPc, servicesCopy, muxRoutes, serverSet, listening,
                    serverShut, shutPc, shutCopy, lastReq >>

\* Server.Start, server.go:153-160: copy s.services under s.mu.RLock().
StartSnapshot ==
    /\ startPc = "idle"
    /\ startPc' = "copied"
    /\ servicesCopy' = services
    /\ UNCHANGED << ioVars, ssVars, rgVars, suVars, shutClosed, services, muxRoutes, serverSet, listening, serverShut,
                    shutPc, shutCopy, closeCalls, gwOps, lastReq, addedLive,
                    lastReplaced >>

\* The handlers Start registers, server.go:162-171: one per entry of the
\* snapshot, each closing over the adapter found in the snapshot.
BuildMux(copy) == copy

\* Server.Start, server.go:162-191: build the mux and set s.server.
StartBuild ==
    /\ startPc = "copied"
    /\ startPc' = "built"
    /\ muxRoutes' = BuildMux(servicesCopy)
    /\ serverSet' = TRUE
    /\ UNCHANGED << ioVars, ssVars, rgVars, suVars, shutClosed, services, servicesCopy, listening, serverShut, shutPc,
                    shutCopy, closeCalls, gwOps, lastReq, addedLive,
                    lastReplaced >>

\* Server.Start, server.go:193: s.server.ListenAndServe().  On a server
\* that was already shut down it returns ErrServerClosed at once.
StartListen ==
    /\ startPc = "built"
    /\ IF serverShut
       THEN startPc' = "returned" /\ UNCHANGED listening
       ELSE startPc' = "serving" /\ listening' = TRUE
    /\ UNCHANGED << ioVars, ssVars, rgVars, suVars, shutClosed, services, servicesCopy, muxRoutes, serverSet, serverShut,
                    shutPc, shutCopy, closeCalls, gwOps, lastReq, addedLive,
                    lastReplaced >>

\* Server.Shutdown, server.go:198-203: collect the mounted adapters under
\* s.mu.RLock().
ShutdownSnapshot ==
    /\ shutPc = "idle"
    /\ shutPc' = "closing"
    /\ shutCopy' = {services[p] : p \in Endpoints} \ {None}
    /\ UNCHANGED << ioVars, ssVars, rgVars, suVars, shutClosed, services, startPc, servicesCopy, muxRoutes, serverSet,
                    listening, serverShut, closeCalls, gwOps, lastReq,
                    addedLive, lastReplaced >>

\* What Service.Close() can return (core.Service, part_003:39).
CloseResults == {"ok", "err"}

\* A Shutdown that gives up at the first Close() error.
AfterCloseFailFast(r) == IF r = "err" THEN "done" ELSE "closing"

\* server.go:205-207: the loop calls service.Close() as a statement; what it
\* returns is dropped and the loop goes on.
AfterClose(r) == "closing"

\* Server.Shutdown, server.go:205-207: service.Close() on each collected
\* adapter (slice filled in map iteration order: any).
ShutdownClose(a) ==
    /\ shutPc = "closing"
    /\ a \in shutCopy
    /\ shutClosed[a] = None
    /\ \E r \in CloseResults :
          /\ shutClosed' = [shutClosed EXCEPT ![a] = r]
          /\ shutPc' = AfterClose(r)
    /\ closeCalls' = [closeCalls EXCEPT ![a] = @ + 1]
    /\ UNCHANGED << ioVars, ssVars, rgVars, suVars, services, startPc, servicesCopy, muxRoutes, serverSet,
                    listening, serverShut, shutCopy, gwOps, lastReq, addedLive,
                    lastReplaced >>

\* Server.Shutdown, server.go:209-213: s.server.Shutdown(ctx) when s.server
\* is set, nothing otherwise.
ShutdownDrain ==
    /\ shutPc = "closing"
    /\ \A a \in shutCopy : shutClosed[a] # None
    /\ shutPc' = "done"
    /\ IF serverSet
       THEN /\ serverShut' = TRUE
            /\ listening' = FALSE
            /\ startPc' = IF startPc = "serving" THEN "returned" ELSE startPc
       ELSE UNCHANGED << serverShut, listening, startPc >>
    /\ UNCHANGED << ioVars, ssVars, rgVars, suVars, shutClosed, services, servicesCopy, muxRoutes, serverSet, shutCopy,
                    closeCalls, gwOps, lastReq, addedLive, lastReplaced >>

\* How the mux built by Start dispatches a request path: the handler
\* registered for exactly that pattern (server.go:170) answers with the
\* adapter it captured; everything else falls to handleRoot
\* (server.go:178, 237-242).
Dispatch(routes, p) ==
    IF p \in Endpoints /\ routes[p] # None THEN routes[p]
    ELSE IF p = rootPath THEN "status"
    ELSE "notfound"

\* Service.GetType() of an adapter.
GetType(a) == IF a = "superset" THEN "superset" ELSE "prometheus"

\* A status page that lists what Start found mounted.
GetServiceInfoAtStart(tbl) ==
    {[Type |-> GetType(servicesCopy[p]), Endpoint |-> p, Available |-> TRUE] :
        p \in {q \in Endpoints : servicesCopy[q] # None}}

\* Server.GetServiceInfo, server.go:217-234: one ServiceInfo per entry of
\* the table, read under s.mu.RLock(), each with Available: true.
GetServiceInfo(tbl) ==
    {[Type |-> GetType(tbl[p]), Endpoint |-> p, Available |-> TRUE] :
        p \in {q \in Endpoints : tbl[q] # None}}

\* One inbound HTTP request to path p.  For the root path handleRoot
\* (server.go:237-269) renders the page from s.GetServiceInfo(); the
\* template is fixed and every field it names exists, so Execute into the
\* buffer succeeds.
Request(p) ==
    /\ listening
    /\ lastReq' = [path     |-> p,
                   to       |-> Dispatch(muxRoutes, p),
                   mounted  |-> IF p \in Endpoints THEN services[p] ELSE None,
                   replaced |-> IF p \in Endpoints THEN lastReplaced[p] ELSE None,
                   live     |-> p \in Endpoints /\ services[p] \in addedLive,
                   page     |-> IF Dispatch(muxRoutes, p) = "status"
                                THEN GetServiceInfo(services) ELSE {}]
    /\ UNCHANGED << ioVars, ssVars, rgVars, suVars, shutClosed, services, startPc, servicesCopy, muxRoutes, serverSet,
                    listening, serverShut, shutPc, shutCopy, closeCalls,
                    gwOps, addedLive, lastReplaced >>

GwNext ==
    \/ \E a \in Adapters : AddService(a)
    \/ \E p \in Endpoints : RemoveService(p)
    \/ StartSnapshot
    \/ StartBuild
    \/ StartListen
    \/ ShutdownSnapshot
    \/ \E a \in Adapters : ShutdownClose(a)
    \/ ShutdownDrain
    \/ \E p \in Paths : Request(p)

(***************************************************************************)
(* Gateway claims.                                                         *)
(***************************************************************************)

\* C1: a request to the path of a mounted adapter A is routed to A until A
\* is removed or replaced, and a request never reaches an adapter that is
\* not the one mounted at the requested path, for AddService/RemoveService
\* calls made before and after Start.
C1_RoutedToMounted ==
    lastReq.path # None =>
        /\ lastReq.mounted # None => lastReq.to = lastReq.mounted
        /\ lastReq.to \in Adapters =>
              /\ GetEndpoint(lastReq.to) = lastReq.path
              /\ lastReq.to = lastReq.mounted

\* C2: an adapter added with AddService while the listener is already
\* serving receives the requests sent to its path.
C2_LiveAddReceives ==
    lastReq.live => lastReq.to = lastReq.mounted

\* C3: after a second AddService at the same endpoint with a different
\* adapter, the table holds the second adapter and a request to that path
\* reaches the second adapter only, never the replaced one.
C3_SecondAddWins ==
    /\ \A p \in Endpoints :
          lastReplaced[p] # None =>
              services[p] \in Adapters \ {lastReplaced[p]}
    /\ lastReq.replaced # None =>
          lastReq.to = lastReq.mounted /\ lastReq.to # lastReq.replaced

(***************************************************************************)
(* Superset client (package superset, client.go): universe.                *)
(***************************************************************************)
\* Calls made on one *Client, all goroutines together.
MaxCalls == 2
\* The clock is read at NewClient and every csrfTokenCacheDuration after it,
\* MaxTicks times.
MaxTicks == 1

\* csrfTokenCacheDuration, client.go:35 (minutes)
csrfTokenCacheDuration == 5

\* Two goroutines share the client (tool handlers run on their request's
\* goroutine); each makes one call after the other.
Callers == {"g1", "g2"}

\* Nobody (no goroutine holds the write lock).
NoCaller == None

\* The empty string "" as a token value; a token n > 0 is the value the
\* login page carried on the n-th fetch made for the cache.
EmptyToken == 0

\* The zero value of csrfTokenCache (client.go:68-71,106-117): token "",
\* expiresAt the zero time, which lies before every time.Now().
ZeroCache == [token |-> EmptyToken, expiresAt |-> -1]

\* Exported and internal entry points of Client.
ApiOps == {"GetDatabases", "ExecuteSQL"}
Ops == {"GetCSRFToken", "EnsureLoggedIn", "Login"} \cup ApiOps

\* What a GET of the login page can come to (client.go:160-179, 256-275):
\* a transport or read error, a page the token pattern does not match, a
\* page whose csrf_token input has value="" (the pattern's group is
\* [^"]*), or a page with a non-empty token.
PageOutcomes == {"error", "nomatch", "empty", "token"}

\* Location headers: none, two that isSuccessfulRedirect accepts and one
\* it does not.
Locations == {"", "/", "/superset/welcome/", "/login/"}

\* client.go:281-285: the location contains "/superset/welcome", is "/", or
\* contains "/superset".
isSuccessfulRedirect(location) ==
    \/ location = "/superset/welcome/"
    \/ location = "/"

\* The round trip failed (httpClient.Do returns an error).
TransportError ==
    [status |-> 0, location |-> "", errMarker |-> FALSE, okMarker |-> FALSE]

\* What the backend can answer to one request of the login exchange: a
\* status, a Location header (on redirects), and a body with or without the
\* failure markers (isLoginError, client.go:288-292) and the success
\* markers (isLoginSuccess, client.go:295-297).
ServerAnswers ==
    {TransportError}
    \cup [status : {302, 303}, location : Locations,
          errMarker : BOOLEAN, okMarker : BOOLEAN]
    \cup [status : {200, 500}, location : {""},
          errMarker : BOOLEAN, okMarker : BOOLEAN]

\* The http.Client of NewClient has no CheckRedirect (client.go:107-111), so
\* Do follows a 302/303 answer that names a Location and hands back what the
\* redirect chain ends in; any other answer is handed back as it is.
IsFollowed(r) == r.status \in {302, 303} /\ r.location # ""

ClientDo(first, last) == IF IsFollowed(first) THEN last ELSE first

\* What Login can get back from httpClient.Do for the POST: what Do makes
\* of the backend's first answer and of the end of a redirect chain.
LoginResponses ==
    {ClientDo(first, last) : first \in ServerAnswers,
                             last \in {r \in ServerAnswers : ~IsFollowed(r)}}

NoResp == [status |-> -1, location |-> "", errMarker |-> FALSE, okMarker |-> FALSE]

\* Errors returned by Login (client.go:202,222,240,248,251).
LoginErrors == {"login_csrf", "login_send", "login_invalid", "login_failed",
                "login_status"}
\* Errors returned by getCSRFToken (client.go:167,173,178).
CsrfErrors == {"csrf_fetch", "csrf_missing"}
\* Errors of the API request itself (client.go:333-354, 406-434).
ApiErrors == {"api_error"}

NoCall == [op |-> None, result |-> None, tok |-> EmptyToken,
           cancelled |-> FALSE, newCache |-> ZeroCache, reqs |-> << >>,
           hdr |-> EmptyToken, startLogged |-> FALSE, startFresh |-> FALSE]

\* NewClient, client.go:87-118
SsInit ==
    /\ loggedIn = FALSE
    /\ csrfCache = ZeroCache
    /\ mu = [writer |-> NoCaller, readers |-> {}]
    /\ now = 0
    /\ pc = [c \in Callers |-> "idle"]
    /\ call = [c \in Callers |-> NoCall]
    /\ loginResp = NoResp
    /\ cacheLog = << >>
    /\ fetchCount = 0
    /\ fetchFails = 0
    /\ postCount = 0
    /\ loginFails = 0
    /\ callsMade = 0

(***************************************************************************)
(* sync.RWMutex.  A reader enters when no writer holds the lock, a writer  *)
(* when nobody holds it.                                                   *)
(***************************************************************************)
\* A read lock that does not wait for the writer.
CanRLockAlways(c) == TRUE

CanRLock(c) == mu.writer = NoCaller
CanLock(c) == mu.writer = NoCaller /\ mu.readers = {}
RLocked(c) == [mu EXCEPT !.readers = @ \cup {c}]
RUnlocked(c) == [mu EXCEPT !.readers = @ \ {c}]
Locked(c) == [mu EXCEPT !.writer = c]
Unlocked(c) == [mu EXCEPT !.writer = NoCaller]

\* A validity test that forgets the expiry.
CacheValidNoExpiry(cache, t) == cache.token # EmptyToken

\* client.go:144 and 156:
\* c.csrfCache.token != "" && time.Now().Before(c.csrfCache.expiresAt)
CacheValid(cache, t) == cache.token # EmptyToken /\ t < cache.expiresAt

\* The entry point of each operation.
EntryPc(o) ==
    CASE o = "GetCSRFToken" -> "csrf_rlock"
      [] o = "Login" -> "login_lock"
      [] OTHER -> "ens_rlock"

\* A goroutine calls one of the client's operations with its request's
\* context.
Call(c, o) ==
    /\ pc[c] \in {"idle", "done"}
    /\ callsMade < MaxCalls
    /\ callsMade' = callsMade + 1
    /\ pc' = [pc EXCEPT ![c] = EntryPc(o)]
    /\ call' = [call EXCEPT ![c] =
                  [NoCall EXCEPT !.op = o,
                                 !.startLogged = loggedIn,
                                 !.startFresh = (cacheLog = << >>)]]
    /\ UNCHANGED << ioVars, gwVars, rgVars, suVars, loggedIn, csrfCache, mu, now, loginResp, cacheLog,
                    fetchCount, fetchFails, postCount, loginFails >>

\* Where a call waits for c.mu.
LockWaits == {"ens_rlock", "csrf_rlock", "login_lock", "csrf_lock"}

\* The caller's context is cancelled (or its deadline passes) while the
\* call waits for c.mu.  (Cancelled during a request, the request ends in
\* an error: one of the outcomes every request step has anyway.)
Cancel(c) ==
    /\ pc[c] \in LockWaits
    /\ ~call[c].cancelled
    /\ call' = [call EXCEPT ![c].cancelled = TRUE]
    /\ UNCHANGED << ioVars, gwVars, rgVars, suVars, callsMade, loggedIn, csrfCache, mu, now, pc, loginResp, cacheLog,
                    fetchCount, fetchFails, postCount, loginFails >>

\* Time passes: one time-to-live of the cache.
Tick ==
    /\ now < MaxTicks * csrfTokenCacheDuration
    /\ now' = now + csrfTokenCacheDuration
    /\ UNCHANGED << ioVars, gwVars, rgVars, suVars, callsMade, loggedIn, csrfCache, mu, pc, call, loginResp, cacheLog,
                    fetchCount, fetchFails, postCount, loginFails >>

(***************************************************************************)
(* Where a call goes when one of its steps returns.  Both operators give   *)
(* the caller's next position and locals.                                  *)
(***************************************************************************)
\* The locals a finished call leaves behind: what it returned.
Returned(rec, r, t) ==
    [rec EXCEPT !.result = r, !.tok = t, !.cancelled = FALSE,
                !.newCache = ZeroCache, !.hdr = EmptyToken]

\* An API operation that goes on whatever EnsureLoggedIn returned.
AfterEnsureIgnoringError(c, r) ==
    IF call[c].op \in ApiOps
    THEN [pc |-> "csrf_rlock", rec |-> call[c]]
    ELSE [pc |-> "done", rec |-> Returned(call[c], r, EmptyToken)]

\* ensureLoggedIn (or Login) has returned r.  GetDatabases and
\* executeSQLInternal go on to getCSRFToken only when it returned nil
\* (client.go:313-317, 374-378); every other caller gets r back.
AfterEnsure(c, r) ==
    IF r = "ok" /\ call[c].op \in ApiOps
    THEN [pc |-> "csrf_rlock", rec |-> call[c]]
    ELSE [pc |-> "done", rec |-> Returned(call[c], r, EmptyToken)]

\* An API operation that asks for the token again when getCSRFToken failed.
AfterCsrfRetry(c, r, t) ==
    IF call[c].op \in ApiOps /\ r # "ok"
    THEN [pc |-> "csrf_rlock", rec |-> call[c]]
    ELSE [pc |-> "done", rec |-> Returned(call[c], r, t)]

\* getCSRFToken has returned (t, r).  GetDatabases and executeSQLInternal
\* issue the API request with t in the X-CSRFToken header only when it
\* returned no error (client.go:317-331, 378-404).
AfterCsrf(c, r, t) ==
    IF call[c].op \in ApiOps
    THEN IF r = "ok"
         THEN [pc |-> "api",
               rec |-> [call[c] EXCEPT !.tok = t, !.hdr = t,
                                       !.reqs = Append(@, "api")]]
         ELSE [pc |-> "done", rec |-> Returned(call[c], r, EmptyToken)]
    ELSE [pc |-> "done", rec |-> Returned(call[c], r, t)]

Goto(c, next) ==
    /\ pc' = [pc EXCEPT ![c] = next.pc]
    /\ call' = [call EXCEPT ![c] = next.rec]

(***************************************************************************)
(* ensureLoggedIn, client.go:300-309                                       *)
(***************************************************************************)
\* c.mu.RLock()
EnsRLock(c) ==
    /\ pc[c] = "ens_rlock"
    /\ CanRLock(c)
    /\ mu' = RLocked(c)
    /\ pc' = [pc EXCEPT ![c] = "ens_check"]
    /\ UNCHANGED << ioVars, gwVars, rgVars, suVars, callsMade, loggedIn, csrfCache, now, call, loginResp, cacheLog,
                    fetchCount, fetchFails, postCount, loginFails >>

\* if c.loggedIn { RUnlock; return nil }; RUnlock; return c.Login(ctx)
EnsCheck(c) ==
    /\ pc[c] = "ens_check"
    /\ mu' = RUnlocked(c)
    /\ IF loggedIn
       THEN Goto(c, AfterEnsure(c, "ok"))
       ELSE Goto(c, [pc |-> "login_lock", rec |-> call[c]])
    /\ UNCHANGED << ioVars, gwVars, rgVars, suVars, callsMade, loggedIn, csrfCache, now, loginResp, cacheLog,
                    fetchCount, fetchFails, postCount, loginFails >>

(***************************************************************************)
(* Login, client.go:192-252                                                *)
(***************************************************************************)
\* Login without the second look at loggedIn under the lock.
LoginRecheckNever == FALSE

\* client.go:196: the re-check made under the exclusive lock.
LoginRecheck == loggedIn

\* A Login that posts the cached token when the cache holds a valid one.
LoginLockUsingCache(c) ==
    /\ pc[c] = "login_lock"
    /\ CanLock(c)
    /\ IF loggedIn
       THEN /\ mu' = mu
            /\ Goto(c, AfterEnsure(c, "ok"))
            /\ UNCHANGED postCount
       ELSE /\ mu' = Locked(c)
            /\ IF CacheValid(csrfCache, now)
               THEN /\ postCount' = postCount + 1
                    /\ Goto(c, [pc |-> "login_post",
                                rec |-> [call[c] EXCEPT
                                           !.reqs = Append(@, "loginPost")]])
               ELSE /\ UNCHANGED postCount
                    /\ Goto(c, [pc |-> "login_get",
                                rec |-> [call[c] EXCEPT
                                           !.reqs = Append(@, "loginGet")]])
    /\ UNCHANGED << ioVars, gwVars, rgVars, suVars, callsMade, loggedIn, csrfCache, now,
                    loginResp, cacheLog, fetchCount, fetchFails, loginFails >>

\* c.mu.Lock(); if c.loggedIn { return nil }; otherwise the GET of the
\* login page is issued by getCSRFTokenForLogin (client.go:193-200,255-261).
LoginLock(c) ==
    /\ pc[c] = "login_lock"
    /\ CanLock(c)
    /\ IF LoginRecheck
       THEN /\ mu' = mu
            /\ Goto(c, AfterEnsure(c, "ok"))
       ELSE /\ mu' = Locked(c)
            /\ Goto(c, [pc |-> "login_get",
                        rec |-> [call[c] EXCEPT !.reqs = Append(@, "loginGet")]])
    /\ UNCHANGED << ioVars, gwVars, rgVars, suVars, callsMade, loggedIn, csrfCache, now, loginResp, cacheLog,
                    fetchCount, fetchFails, postCount, loginFails >>

\* getCSRFTokenForLogin returns (client.go:200-203, 261-277); with a token
\* Login builds the form and issues the POST (client.go:205-220).
LoginGetResp(c) ==
    /\ pc[c] = "login_get"
    /\ \E o \in PageOutcomes :
          /\ call[c].cancelled => o = "error"
          /\ IF o \in {"error", "nomatch"}
             THEN /\ mu' = Unlocked(c)
                  /\ loginFails' = loginFails + 1
                  /\ Goto(c, AfterEnsure(c, "login_csrf"))
                  /\ UNCHANGED postCount
             ELSE /\ postCount' = postCount + 1
                  /\ Goto(c, [pc |-> "login_post",
                              rec |-> [call[c] EXCEPT
                                          !.reqs = Append(@, "loginPost")]])
                  /\ UNCHANGED << mu, loginFails >>
    /\ UNCHANGED << ioVars, gwVars, rgVars, suVars, callsMade, loggedIn, csrfCache, now, loginResp, cacheLog,
                    fetchCount, fetchFails >>

\* c.httpClient.Do(req) returns for the POST (client.go:220-224).
LoginPostArrive(c) ==
    /\ pc[c] = "login_post"
    /\ \E r \in LoginResponses :
          /\ call[c].cancelled => r = TransportError
          /\ loginResp' = r
    /\ pc' = [pc EXCEPT ![c] = "login_classify"]
    /\ UNCHANGED << ioVars, gwVars, rgVars, suVars, callsMade, loggedIn, csrfCache, mu, now, call, cacheLog,
                    fetchCount, fetchFails, postCount, loginFails >>

\* A classification that looks for the success markers first.
ClassifyLoginSuccessFirst(r) ==
    IF r.status = 0 THEN "login_send"
    ELSE IF r.status \in {302, 303} /\ isSuccessfulRedirect(r.location) THEN "ok"
    ELSE IF r.status = 200
         THEN IF r.okMarker THEN "ok"
              ELSE IF r.errMarker THEN "login_invalid"
              ELSE "login_failed"
    ELSE "login_status"

\* A classification that takes every page answered with 200 for the
\* post-login page.
ClassifyLoginAnyPage(r) ==
    IF r.status = 0 THEN "login_send"
    ELSE IF r.status \in {302, 303} /\ isSuccessfulRedirect(r.location) THEN "ok"
    ELSE IF r.status = 200 THEN "ok"
    ELSE "login_status"

\* client.go:221-251: how Login classifies the POST's outcome.
ClassifyLogin(r) ==
    IF r.status = 0 THEN "login_send"
    ELSE IF r.status \in {302, 303} /\ isSuccessfulRedirect(r.location) THEN "ok"
    ELSE IF r.status = 200
         THEN IF r.errMarker THEN "login_invalid"
              ELSE IF r.okMarker THEN "ok"
              ELSE "login_failed"
    ELSE "login_status"

\* client.go:226-251, then the deferred c.mu.Unlock().
LoginClassify(c) ==
    /\ pc[c] = "login_classify"
    /\ LET r == ClassifyLogin(loginResp) IN
          /\ loggedIn' = IF r = "ok" THEN TRUE ELSE loggedIn
          /\ loginFails' = IF r = "ok" THEN loginFails ELSE loginFails + 1
          /\ Goto(c, AfterEnsure(c, r))
    /\ mu' = Unlocked(c)
    /\ loginResp' = NoResp
    /\ UNCHANGED << ioVars, gwVars, rgVars, suVars, callsMade, csrfCache, now, cacheLog, fetchCount, fetchFails,
                    postCount >>

(***************************************************************************)
(* getCSRFToken, client.go:141-189                                         *)
(***************************************************************************)
\* c.mu.RLock()
CsrfRLock(c) ==
    /\ pc[c] = "csrf_rlock"
    /\ CanRLock(c)
    /\ mu' = RLocked(c)
    /\ pc' = [pc EXCEPT ![c] = "csrf_check"]
    /\ UNCHANGED << ioVars, gwVars, rgVars, suVars, callsMade, loggedIn, csrfCache, now, call, loginResp, cacheLog,
                    fetchCount, fetchFails, postCount, loginFails >>

\* client.go:144-149: return the cached token if valid, else fall through.
CsrfCheck(c) ==
    /\ pc[c] = "csrf_check"
    /\ mu' = RUnlocked(c)
    /\ IF CacheValid(csrfCache, now)
       THEN Goto(c, AfterCsrf(c, "ok", csrfCache.token))
       ELSE Goto(c, [pc |-> "csrf_lock", rec |-> call[c]])
    /\ UNCHANGED << ioVars, gwVars, rgVars, suVars, callsMade, loggedIn, csrfCache, now, loginResp, cacheLog,
                    fetchCount, fetchFails, postCount, loginFails >>

\* getCSRFToken without the second look at the cache under the lock.
CsrfRecheckNever == FALSE

\* client.go:156: the re-check made under the exclusive lock.
CsrfRecheck == CacheValid(csrfCache, now)

\* client.go:152-165: c.mu.Lock(), the double check, and otherwise the GET
\* of the login page.
CsrfLock(c) ==
    /\ pc[c] = "csrf_lock"
    /\ CanLock(c)
    /\ IF CsrfRecheck
       THEN /\ mu' = mu
            /\ Goto(c, AfterCsrf(c, "ok", csrfCache.token))
            /\ UNCHANGED fetchCount
       ELSE /\ mu' = Locked(c)
            /\ fetchCount' = fetchCount + 1
            /\ Goto(c, [pc |-> "csrf_get",
                        rec |-> [call[c] EXCEPT !.reqs = Append(@, "csrfGet")]])
    /\ UNCHANGED << ioVars, gwVars, rgVars, suVars, callsMade, loggedIn, csrfCache, now, loginResp, cacheLog,
                    fetchFails, postCount, loginFails >>

\* client.go:183-186: the cache entry built from a fetched token.
NewEntry(t, at) == [token |-> t, expiresAt |-> at + csrfTokenCacheDuration]

\* A getCSRFToken that caches a stand-in token when the fetch fails.
CsrfGetRespCachingDefault(c) ==
    /\ pc[c] = "csrf_get"
    /\ \E o \in PageOutcomes :
          /\ call[c].cancelled => o = "error"
          /\ IF o \in {"error", "nomatch"}
             THEN /\ mu' = Unlocked(c)
                  /\ fetchFails' = fetchFails + 1
                  /\ csrfCache' = NewEntry(fetchCount, now)
                  /\ Goto(c, AfterCsrf(c, IF o = "error" THEN "csrf_fetch"
                                          ELSE "csrf_missing", EmptyToken))
             ELSE /\ Goto(c, [pc |-> "csrf_store_token",
                              rec |-> [call[c] EXCEPT !.newCache =
                                  NewEntry(IF o = "empty" THEN EmptyToken
                                           ELSE fetchCount, now)]])
                  /\ UNCHANGED << mu, fetchFails, csrfCache >>
    /\ UNCHANGED << ioVars, gwVars, rgVars, suVars, callsMade, loggedIn, now,
                    loginResp, cacheLog, fetchCount, postCount, loginFails >>

\* client.go:165-186: the GET returns; on an error or a page without the
\* token pattern getCSRFToken returns the error (and unlocks), otherwise it
\* builds the new cache entry.
CsrfGetResp(c) ==
    /\ pc[c] = "csrf_get"
    /\ \E o \in PageOutcomes :
          /\ call[c].cancelled => o = "error"
          /\ IF o \in {"error", "nomatch"}
             THEN /\ mu' = Unlocked(c)
                  /\ fetchFails' = fetchFails + 1
                  /\ Goto(c, AfterCsrf(c, IF o = "error" THEN "csrf_fetch"
                                          ELSE "csrf_missing", EmptyToken))
             ELSE /\ Goto(c, [pc |-> "csrf_store_token",
                              rec |-> [call[c] EXCEPT !.newCache =
                                  NewEntry(IF o = "empty" THEN EmptyToken
                                           ELSE fetchCount, now)]])
                  /\ UNCHANGED << mu, fetchFails >>
    /\ UNCHANGED << ioVars, gwVars, rgVars, suVars, callsMade, loggedIn, csrfCache, now, loginResp, cacheLog,
                    fetchCount, postCount, loginFails >>

\* client.go:183: c.csrfCache = csrfTokenCache{...} is a two-word store;
\* first word.
CsrfStoreToken(c) ==
    /\ pc[c] = "csrf_store_token"
    /\ csrfCache' = [csrfCache EXCEPT !.token = call[c].newCache.token]
    /\ pc' = [pc EXCEPT ![c] = "csrf_store_expiry"]
    /\ UNCHANGED << ioVars, gwVars, rgVars, suVars, callsMade, loggedIn, mu, now, call, loginResp, cacheLog,
                    fetchCount, fetchFails, postCount, loginFails >>

\* client.go:183-188: second word of the store, return token, nil and the
\* deferred c.mu.Unlock().
CsrfStoreExpiry(c) ==
    /\ pc[c] = "csrf_store_expiry"
    /\ csrfCache' = [csrfCache EXCEPT !.expiresAt = call[c].newCache.expiresAt]
    /\ cacheLog' = Append(cacheLog, call[c].newCache)
    /\ mu' = Unlocked(c)
    /\ Goto(c, AfterCsrf(c, "ok", call[c].newCache.token))
    /\ UNCHANGED << ioVars, gwVars, rgVars, suVars, callsMade, loggedIn, now, loginResp, fetchCount, fetchFails,
                    postCount, loginFails >>

(***************************************************************************)
(* GetDatabases / executeSQLInternal: the API request                      *)
(* (client.go:322-360, 383-457)                                            *)
(***************************************************************************)
\* An API request whose failure ends the session.
ApiRespInvalidating(c) ==
    /\ pc[c] = "api"
    /\ \E o \in {"ok", "api_error"} :
          /\ call[c].cancelled => o = "api_error"
          /\ loggedIn' = (o = "ok")
          /\ Goto(c, [pc |-> "done", rec |-> Returned(call[c], o, call[c].tok)])
    /\ UNCHANGED << ioVars, gwVars, rgVars, suVars, callsMade, csrfCache, mu,
                    now, loginResp, cacheLog, fetchCount, fetchFails,
                    postCount, loginFails >>

\* The response to the API request arrives (or the round trip fails) and
\* the call returns the decoded result or the error.
ApiResp(c) ==
    /\ pc[c] = "api"
    /\ \E o \in {"ok", "api_error"} :
          /\ call[c].cancelled => o = "api_error"
          /\ Goto(c, [pc |-> "done", rec |-> Returned(call[c], o, call[c].tok)])
    /\ UNCHANGED << ioVars, gwVars, rgVars, suVars, callsMade, loggedIn, csrfCache, mu, now, loginResp, cacheLog,
                    fetchCount, fetchFails, postCount, loginFails >>

SsNext ==
    \/ \E c \in Callers, o \in Ops : Call(c, o)
    \/ \E c \in Callers : Cancel(c)
    \/ Tick
    \/ \E c \in Callers : EnsRLock(c)
    \/ \E c \in Callers : EnsCheck(c)
    \/ \E c \in Callers : LoginLock(c)
    \/ \E c \in Callers : LoginGetResp(c)
    \/ \E c \in Callers : LoginPostArrive(c)
    \/ \E c \in Callers : LoginClassify(c)
    \/ \E c \in Callers : CsrfRLock(c)
    \/ \E c \in Callers : CsrfCheck(c)
    \/ \E c \in Callers : CsrfLock(c)
    \/ \E c \in Callers : CsrfGetResp(c)
    \/ \E c \in Callers : CsrfStoreToken(c)
    \/ \E c \in Callers : CsrfStoreExpiry(c)
    \/ \E c \in Callers : ApiResp(c)

(***************************************************************************)
(* Service registry (package core): universe.                              *)
(***************************************************************************)
\* Registry calls made, all threads together.
MaxRegCalls == 4

\* ServiceTypePrometheus, ServiceTypeSuperset (part_003:14-17).
Kinds == {"prometheus", "superset"}

\* ServiceFactory values (part_003:28): fA is prometheus.CreateService and
\* fB is superset.CreateService, the two factories of the repository
\* (internal/services/registry.go:11-12).
Factories == {"fA", "fB"}

\* The configuration type a factory asserts its argument to be,
\* internal/services/prometheus/service.go:23 and
\* internal/services/superset/service.go:23, named by the kind that type's
\* GetType() returns (main.go:529, 564).
FactoryConfigKind(f) == IF f = "fA" THEN "prometheus" ELSE "superset"

\* NewClient inside a factory: a client or an error.
NewClientResults == {"ok", "err"}

\* Goroutines calling into the registry.
RegThreads == {"r1", "r2"}

\* The entry points (part_003:55-110).
RegOps == {"RegisterServiceFactory", "CreateService",
           "GetSupportedServiceTypes", "IsServiceTypeSupported"}

\* var serviceFactories = make(map[ServiceType]ServiceFactory), part_003:49
NoFactories == [k \in Kinds |-> None]

\* A slice: the identity of its backing array (0: the nil slice) and the
\* set of its elements.
NilSlice == [buf |-> 0, items |-> {}]

\* The zero value of ServiceType, what make() fills a slice with.
ZeroKind == ""

\* make([]ServiceType, n): a new backing array of n zero values.
MakeSlice(id, n) == [buf |-> id, items |-> IF n = 0 THEN {} ELSE {ZeroKind}]

\* The keys of the factory map.
RegisteredKinds(m) == {k \in Kinds : m[k] # None}

\* What a factory can return (part_003:73): a Service, the
\* ServiceCreationError of core.NewServiceCreationError (part_002:25-57),
\* or the plain error of fmt.Errorf.
FactoryResults == {"ok", "creation_error", "config_type_error"}

\* prometheus.CreateService and superset.CreateService (service.go:22-50 of
\* each package), called with the configuration of kind k: the type
\* assertion first, then NewClient.
FactoryCreateService(f, k, newClient) ==
    IF FactoryConfigKind(f) # k THEN "config_type_error"
    ELSE IF newClient = "err" THEN "creation_error"
    ELSE "ok"

NoRegCall == [op |-> None, kind |-> None, factory |-> None, result |-> None,
              atLookup |-> None, invoked |-> << >>, types |-> NilSlice,
              out |-> NilSlice]

\* Package initialisation, part_003:49-52.
RgInit ==
    /\ serviceFactories = NoFactories
    /\ supportedTypesCache = NilSlice
    /\ cacheValid = FALSE
    /\ factoriesMutex = [writer |-> None, readers |-> {}]
    /\ rpc = [t \in RegThreads |-> "idle"]
    /\ rcall = [t \in RegThreads |-> NoRegCall]
    /\ nextBuf = 1
    /\ regCalls = 0

\* factoriesMutex, a sync.RWMutex.
RegCanLock == factoriesMutex.writer = None /\ factoriesMutex.readers = {}
RegCanRLock == factoriesMutex.writer = None
RegLocked(t) == [factoriesMutex EXCEPT !.writer = t]
RegUnlocked == [factoriesMutex EXCEPT !.writer = None]
RegRLocked(t) == [factoriesMutex EXCEPT !.readers = @ \cup {t}]
RegRUnlocked(t) == [factoriesMutex EXCEPT !.readers = @ \ {t}]

RegEntry(o) ==
    IF o = "RegisterServiceFactory" THEN "reg_lock"
    ELSE IF o = "CreateService" THEN "cr_rlock"
    ELSE IF o = "GetSupportedServiceTypes" THEN "sup_rlock"
    ELSE "is_rlock"

\* A thread calls one of the entry points.  The kind is config.GetType()
\* or the serviceType argument; the factory is Register's argument.
RegCall(t, o, k, f) ==
    /\ rpc[t] \in {"idle", "done"}
    /\ regCalls < MaxRegCalls
    /\ regCalls' = regCalls + 1
    /\ o = "GetSupportedServiceTypes" => k = None
    /\ o # "GetSupportedServiceTypes" => k \in Kinds
    /\ o = "RegisterServiceFactory" <=> f \in Factories
    /\ rpc' = [rpc EXCEPT ![t] = RegEntry(o)]
    /\ rcall' = [rcall EXCEPT ![t] = [NoRegCall EXCEPT !.op = o, !.kind = k,
                                                       !.factory = f]]
    /\ UNCHANGED << ioVars, gwVars, ssVars, suVars, serviceFactories,
                    supportedTypesCache, cacheValid, factoriesMutex, nextBuf >>

(***************************************************************************)
(* RegisterServiceFactory, part_003:55-61.                                 *)
(***************************************************************************)
\* part_003:56 factoriesMutex.Lock()
RegLock(t) ==
    /\ rpc[t] = "reg_lock"
    /\ RegCanLock
    /\ factoriesMutex' = RegLocked(t)
    /\ rpc' = [rpc EXCEPT ![t] = "reg_store"]
    /\ UNCHANGED << ioVars, gwVars, ssVars, suVars, serviceFactories,
                    supportedTypesCache, cacheValid, rcall, nextBuf, regCalls >>

\* A registration that keeps the factory a kind already has.
StoreFactoryIfAbsent(m, k, f) == IF m[k] = None THEN [m EXCEPT ![k] = f] ELSE m

\* part_003:58 serviceFactories[serviceType] = factory
StoreFactory(m, k, f) == [m EXCEPT ![k] = f]

RegStore(t) ==
    /\ rpc[t] = "reg_store"
    /\ serviceFactories' =
          StoreFactory(serviceFactories, rcall[t].kind, rcall[t].factory)
    /\ rpc' = [rpc EXCEPT ![t] = "reg_invalidate"]
    /\ UNCHANGED << ioVars, gwVars, ssVars, suVars, supportedTypesCache, cacheValid,
                    factoriesMutex, rcall, nextBuf, regCalls >>

\* part_003:60 cacheValid = false, then the deferred Unlock().
RegInvalidate(t) ==
    /\ rpc[t] = "reg_invalidate"
    /\ cacheValid' = FALSE
    /\ factoriesMutex' = RegUnlocked
    /\ rpc' = [rpc EXCEPT ![t] = "done"]
    /\ rcall' = [rcall EXCEPT ![t].result = "ok"]
    /\ UNCHANGED << ioVars, gwVars, ssVars, suVars, serviceFactories,
                    supportedTypesCache, nextBuf, regCalls >>

(***************************************************************************)
(* CreateService, part_003:64-74.                                          *)
(***************************************************************************)
\* part_003:65 factoriesMutex.RLock()
CrRLock(t) ==
    /\ rpc[t] = "cr_rlock"
    /\ RegCanRLock
    /\ factoriesMutex' = RegRLocked(t)
    /\ rpc' = [rpc EXCEPT ![t] = "cr_lookup"]
    /\ UNCHANGED << ioVars, gwVars, ssVars, suVars, serviceFactories,
                    supportedTypesCache, cacheValid, rcall, nextBuf, regCalls >>

\* A lookup that takes a registered factory without looking at the kind.
LookupIgnoringKind(m, k) ==
    IF RegisteredKinds(m) = {} THEN None
    ELSE m[CHOOSE j \in RegisteredKinds(m) : TRUE]

\* A lookup that falls back on any registered factory.
LookupAnyFactory(m, k) ==
    IF m[k] # None THEN m[k]
    ELSE IF RegisteredKinds(m) = {} THEN None
    ELSE m[CHOOSE j \in RegisteredKinds(m) : TRUE]

\* part_003:66 factory, exists := serviceFactories[config.GetType()]
LookupFactory(m, k) == m[k]

\* NewUnsupportedServiceError(config.GetType()), part_003:70, part_002:7-23
UnsupportedServiceError(k) == << "UnsupportedServiceError", k >>

\* part_003:66-71: the lookup, RUnlock(), and the return when the kind has
\* no factory.
CrLookup(t) ==
    /\ rpc[t] = "cr_lookup"
    /\ LET f == LookupFactory(serviceFactories, rcall[t].kind) IN
          /\ rcall' = [rcall EXCEPT
                ![t].factory = f,
                ![t].atLookup = serviceFactories[rcall[t].kind],
                ![t].result = IF f = None
                              THEN UnsupportedServiceError(rcall[t].kind)
                              ELSE None]
          /\ rpc' = [rpc EXCEPT ![t] = IF f = None THEN "done" ELSE "cr_invoke"]
    /\ factoriesMutex' = RegRUnlocked(t)
    /\ UNCHANGED << ioVars, gwVars, ssVars, suVars, serviceFactories,
                    supportedTypesCache, cacheValid, nextBuf, regCalls >>

\* part_003:73 return factory(config, timeout)
CrInvoke(t) ==
    /\ rpc[t] = "cr_invoke"
    /\ \E nc \in NewClientResults :
          rcall' = [rcall EXCEPT
                ![t].invoked = Append(@, rcall[t].factory),
                ![t].result = FactoryCreateService(rcall[t].factory,
                                                   rcall[t].kind, nc)]
    /\ rpc' = [rpc EXCEPT ![t] = "done"]
    /\ UNCHANGED << ioVars, gwVars, ssVars, suVars, serviceFactories,
                    supportedTypesCache, cacheValid, factoriesMutex, nextBuf,
                    regCalls >>

(***************************************************************************)
(* IsServiceTypeSupported, part_003:105-110.                               *)
(***************************************************************************)
IsRLock(t) ==
    /\ rpc[t] = "is_rlock"
    /\ RegCanRLock
    /\ factoriesMutex' = RegRLocked(t)
    /\ rpc' = [rpc EXCEPT ![t] = "is_lookup"]
    /\ UNCHANGED << ioVars, gwVars, ssVars, suVars, serviceFactories,
                    supportedTypesCache, cacheValid, rcall, nextBuf, regCalls >>

IsLookup(t) ==
    /\ rpc[t] = "is_lookup"
    /\ rcall' = [rcall EXCEPT
          ![t].result = IF serviceFactories[rcall[t].kind] # None
                        THEN "true" ELSE "false"]
    /\ factoriesMutex' = RegRUnlocked(t)
    /\ rpc' = [rpc EXCEPT ![t] = "done"]
    /\ UNCHANGED << ioVars, gwVars, ssVars, suVars, serviceFactories,
                    supportedTypesCache, cacheValid, nextBuf, regCalls >>

(***************************************************************************)
(* GetSupportedServiceTypes, part_003:77-102.  Everything between RLock     *)
(* and RUnlock runs under the read lock only, which other readers share,    *)
(* so each read and each write of the cache is a step of its own.           *)
(***************************************************************************)
\* part_003:78 factoriesMutex.RLock()
SupRLock(t) ==
    /\ rpc[t] = "sup_rlock"
    /\ RegCanRLock
    /\ factoriesMutex' = RegRLocked(t)
    /\ rpc' = [rpc EXCEPT ![t] = "sup_check"]
    /\ UNCHANGED << ioVars, gwVars, ssVars, suVars, serviceFactories,
                    supportedTypesCache, cacheValid, rcall, nextBuf, regCalls >>

\* A check that never trusts the cache.
CacheHitNever == FALSE

\* part_003:81 cacheValid && supportedTypesCache != nil
CacheHit == cacheValid /\ supportedTypesCache.buf # 0

SupCheck(t) ==
    /\ rpc[t] = "sup_check"
    /\ rpc' = [rpc EXCEPT ![t] = IF CacheHit THEN "sup_copy" ELSE "sup_build"]
    /\ UNCHANGED << ioVars, gwVars, ssVars, suVars, serviceFactories,
                    supportedTypesCache, cacheValid, factoriesMutex, rcall,
                    nextBuf, regCalls >>

\* part_003:83-86: a new slice, the cache copied into it, RUnlock, return.
SupCopy(t) ==
    /\ rpc[t] = "sup_copy"
    /\ rcall' = [rcall EXCEPT
          ![t].out = [buf |-> nextBuf, items |-> supportedTypesCache.items],
          ![t].result = "ok"]
    /\ nextBuf' = nextBuf + 1
    /\ factoriesMutex' = RegRUnlocked(t)
    /\ rpc' = [rpc EXCEPT ![t] = "done"]
    /\ UNCHANGED << ioVars, gwVars, ssVars, suVars, serviceFactories,
                    supportedTypesCache, cacheValid, regCalls >>

\* part_003:90-93: types := the keys of serviceFactories, in a new slice.
SupBuild(t) ==
    /\ rpc[t] = "sup_build"
    /\ rcall' = [rcall EXCEPT
          ![t].types = [buf |-> nextBuf,
                        items |-> RegisteredKinds(serviceFactories)]]
    /\ nextBuf' = nextBuf + 1
    /\ rpc' = [rpc EXCEPT ![t] = "sup_alloc"]
    /\ UNCHANGED << ioVars, gwVars, ssVars, suVars, serviceFactories,
                    supportedTypesCache, cacheValid, factoriesMutex, regCalls >>

\* part_003:96 supportedTypesCache = make([]ServiceType, len(types))
SupAlloc(t) ==
    /\ rpc[t] = "sup_alloc"
    /\ supportedTypesCache' =
          MakeSlice(nextBuf, Cardinality(rcall[t].types.items))
    /\ nextBuf' = nextBuf + 1
    /\ rpc' = [rpc EXCEPT ![t] = "sup_fill"]
    /\ UNCHANGED << ioVars, gwVars, ssVars, suVars, serviceFactories, cacheValid,
                    factoriesMutex, rcall, regCalls >>

\* part_003:97 copy(supportedTypesCache, types): into whatever slice the
\* variable holds now.
SupFill(t) ==
    /\ rpc[t] = "sup_fill"
    /\ supportedTypesCache' =
          [supportedTypesCache EXCEPT !.items = rcall[t].types.items]
    /\ rpc' = [rpc EXCEPT ![t] = "sup_flag"]
    /\ UNCHANGED << ioVars, gwVars, ssVars, suVars, serviceFactories, cacheValid,
                    factoriesMutex, rcall, nextBuf, regCalls >>

\* part_003:98-101 cacheValid = true, RUnlock, return types.
SupFlag(t) ==
    /\ rpc[t] = "sup_flag"
    /\ cacheValid' = TRUE
    /\ rcall' = [rcall EXCEPT ![t].out = rcall[t].types, ![t].result = "ok"]
    /\ factoriesMutex' = RegRUnlocked(t)
    /\ rpc' = [rpc EXCEPT ![t] = "done"]
    /\ UNCHANGED << ioVars, gwVars, ssVars, suVars, serviceFactories,
                    supportedTypesCache, nextBuf, regCalls >>

RgNext ==
    \/ \E t \in RegThreads, o \in RegOps, k \in Kinds \cup {None},
          f \in Factories \cup {None} : RegCall(t, o, k, f)
    \/ \E t \in RegThreads :
          \/ RegLock(t) \/ RegStore(t) \/ RegInvalidate(t)
          \/ CrRLock(t) \/ CrLookup(t) \/ CrInvoke(t)
          \/ IsRLock(t) \/ IsLookup(t)
          \/ SupRLock(t) \/ SupCheck(t) \/ SupCopy(t)
          \/ SupBuild(t) \/ SupAlloc(t) \/ SupFill(t) \/ SupFlag(t)

(***************************************************************************)
(* Tool handlers (superset/handlers.go, part_000) and the decoding of the  *)
(* backend's answers in the Superset client (part_007:336-359, 408-458).   *)
(***************************************************************************)
MaxIdLen == 2
MaxItems == 2
MaxCols == 2
MaxRows == 2

\* The sequences over S of length at most n: the strings and JSON arrays a
\* handler or decoder can be given.
SeqsUpTo(S, n) == UNION {[1 .. m -> S] : m \in 0 .. n}

Tools == {"list_databases", "execute_sql", "execute_sql_with_schema",
          "status", "query", "query_range", "common_metrics"}
SqlTools == {"execute_sql", "execute_sql_with_schema"}

\* The characters of a database_id argument, and the arguments themselves.
IdChars == {"4", "2", "-", "x"}
IdStrings == SeqsUpTo(IdChars, MaxIdLen)

DigitValue(ch) == CASE ch = "4" -> 4 [] ch = "2" -> 2 [] OTHER -> -1

RECURSIVE ParseDigits(_)
ParseDigits(str) ==
    IF str = << >> THEN 0
    ELSE 10 * ParseDigits(SubSeq(str, 1, Len(str) - 1))
         + DigitValue(str[Len(str)])

\* strconv.Atoi (handlers.go:58, 80): an optional sign, then one or more
\* decimal digits; anything else is an error.
Atoi(str) ==
    LET neg == Len(str) > 0 /\ str[1] = "-"
        body == IF neg THEN Tail(str) ELSE str
    IN IF body = << >> \/ \E i \in 1 .. Len(body) : DigitValue(body[i]) < 0
       THEN [ok |-> FALSE, n |-> 0]
       ELSE [ok |-> TRUE,
             n |-> IF neg THEN 0 - ParseDigits(body) ELSE ParseDigits(body)]

\* What the backend calls of a handler can come to, in call order.
StepResults == {"ok", "err"}

\* The value a successful backend call hands to CreateSuccessResponse: the
\* handlers' own maps and the SQLResult always serialize; the query
\* handler passes on a value of an interface type.
Payloads == {"value", "unmarshalable"}

\* start_time and end_time arguments, and time.Parse(time.RFC3339, .) on
\* them (part_000:68, 73): date, "T", time and a zone are all required.
TimeStrings == {"2024-01-01T00:00:00Z", "2024-01-01T23:59:59+08:00",
                "2024-01-01 00:00:00", "2024-01-01", ""}
IsRFC3339(str) ==
    str \in {"2024-01-01T00:00:00Z", "2024-01-01T23:59:59+08:00"}

\* step arguments, and time.ParseDuration on them (part_000:78): a number
\* needs a unit.
StepStrings == {"1m", "1h", "60", "1 minute", ""}
IsDuration(str) == str \in {"1m", "1h"}

\* metric_type arguments, and the keys of MetricQueries
\* (internal/services/prometheus/client.go:110-116); the lookup is by the
\* exact string.
MetricStrings == {"cpu", "memory", "disk", "network", "up", "CPU", "load", ""}
MetricQueries == {"cpu", "memory", "disk", "network", "up"}

\* The arguments a tool does not have are left at their zero value.
ToolCalls ==
    {c \in [tool : Tools, client : {"nil", "client"}, id : IdStrings,
            steps : [1 .. 3 -> StepResults], payload : Payloads,
            start : TimeStrings, end : TimeStrings, step : StepStrings,
            metric : MetricStrings] :
        /\ c.tool \notin SqlTools => c.id = << >>
        /\ c.tool \notin {"query", "query_range", "common_metrics"} =>
              c.payload = "value"
        /\ c.tool # "status" => c.steps[2] = "ok" /\ c.steps[3] = "ok"
        /\ c.tool # "query_range" =>
              c.start = "" /\ c.end = "" /\ c.step = ""
        /\ c.tool # "common_metrics" => c.metric = ""}

\* What a handler returns, with the client methods it has called.
Reply(r, calls) == [result |-> r.result, err |-> r.err, calls |-> calls]

\* A nil *mcp.CallToolResultFor[any].
NilResult == [IsError |-> FALSE, Content |-> << >>]

\* CreateErrorResponse, response.go:31-36.
CreateErrorResponse(msg) ==
    [result |-> [IsError |-> TRUE,
                 Content |-> << [text |-> "message", of |-> msg] >>],
     err |-> "nil"]

\* A CreateSuccessResponse that hands the serialization error to its caller.
CreateSuccessResponseGoError(data) ==
    IF data = "unmarshalable"
    THEN [result |-> NilResult, err |-> "marshal_failed"]
    ELSE [result |-> [IsError |-> FALSE,
                      Content |-> << [text |-> "json", of |-> data] >>],
          err |-> "nil"]

\* CreateSuccessResponse, response.go:15-28: json.Marshal(data); a failure
\* becomes an error result, otherwise the JSON text is the content.
CreateSuccessResponse(data) ==
    IF data = "unmarshalable"
    THEN [result |-> [IsError |-> TRUE,
                      Content |-> << [text |-> "message",
                                      of |-> "marshal_failed"] >>],
          err |-> "nil"]
    ELSE [result |-> [IsError |-> FALSE,
                      Content |-> << [text |-> "json", of |-> data] >>],
          err |-> "nil"]

\* superset/handlers.go:28-47
createListDatabasesHandler(in) ==
    IF in.client = "nil"
    THEN Reply(CreateErrorResponse("client_unavailable"), << >>)
    ELSE IF in.steps[1] = "err"
    THEN Reply(CreateErrorResponse("get_databases_failed"), << "GetDatabases" >>)
    ELSE Reply(CreateSuccessResponse("value"), << "GetDatabases" >>)

\* superset/handlers.go:50-70 and 73-93 (the schema variant differs only
\* in the client method it calls).
createExecuteSQLHandler(in) ==
    IF in.client = "nil"
    THEN Reply(CreateErrorResponse("client_unavailable"), << >>)
    ELSE IF ~Atoi(in.id).ok
    THEN Reply(CreateErrorResponse("invalid_database_id"), << >>)
    ELSE IF in.steps[1] = "err"
    THEN Reply(CreateErrorResponse("execute_sql_failed"), << "ExecuteSQL" >>)
    ELSE Reply(CreateSuccessResponse("value"), << "ExecuteSQL" >>)

\* superset/handlers.go:96-126: TestConnection, Login, GetDatabases.
createStatusHandler(in) ==
    IF in.client = "nil"
    THEN Reply(CreateErrorResponse("client_unavailable"), << >>)
    ELSE IF in.steps[1] = "err"
    THEN Reply(CreateErrorResponse("connection_failed"), << "TestConnection" >>)
    ELSE IF in.steps[2] = "err"
    THEN Reply(CreateErrorResponse("login_failed"),
               << "TestConnection", "Login" >>)
    ELSE IF in.steps[3] = "err"
    THEN Reply(CreateErrorResponse("functional_failed"),
               << "TestConnection", "Login", "GetDatabases" >>)
    ELSE Reply(CreateSuccessResponse("value"),
               << "TestConnection", "Login", "GetDatabases" >>)

\* part_000:42-58
createQueryHandler(in) ==
    IF in.client = "nil"
    THEN Reply(CreateErrorResponse("client_unavailable"), << >>)
    ELSE IF in.steps[1] = "err"
    THEN Reply(CreateErrorResponse("query_failed"), << "QueryInstant" >>)
    ELSE Reply(CreateSuccessResponse(in.payload), << "QueryInstant" >>)

\* A range query handler that looks at its arguments after the query.
createQueryRangeHandlerLateCheck(in) ==
    IF in.client = "nil"
    THEN Reply(CreateErrorResponse("client_unavailable"), << >>)
    ELSE IF in.steps[1] = "err"
    THEN Reply(CreateErrorResponse("query_range_failed"), << "QueryRange" >>)
    ELSE IF ~IsRFC3339(in.start) \/ ~IsRFC3339(in.end) \/ ~IsDuration(in.step)
    THEN Reply(CreateErrorResponse("invalid_argument"), << "QueryRange" >>)
    ELSE Reply(CreateSuccessResponse(in.payload), << "QueryRange" >>)

\* part_000:60-93
createQueryRangeHandler(in) ==
    IF in.client = "nil"
    THEN Reply(CreateErrorResponse("client_unavailable"), << >>)
    ELSE IF ~IsRFC3339(in.start)
    THEN Reply(CreateErrorResponse("invalid_start_time"), << >>)
    ELSE IF ~IsRFC3339(in.end)
    THEN Reply(CreateErrorResponse("invalid_end_time"), << >>)
    ELSE IF ~IsDuration(in.step)
    THEN Reply(CreateErrorResponse("invalid_step"), << >>)
    ELSE IF in.steps[1] = "err"
    THEN Reply(CreateErrorResponse("query_range_failed"), << "QueryRange" >>)
    ELSE Reply(CreateSuccessResponse(in.payload), << "QueryRange" >>)

\* part_000:153-174
createCommonMetricsHandler(in) ==
    IF in.client = "nil"
    THEN Reply(CreateErrorResponse("client_unavailable"), << >>)
    ELSE IF in.metric \notin MetricQueries
    THEN Reply(CreateErrorResponse("unsupported_metric_type"), << >>)
    ELSE IF in.steps[1] = "err"
    THEN Reply(CreateErrorResponse("query_failed"), << "QueryInstant" >>)
    ELSE Reply(CreateSuccessResponse(in.payload), << "QueryInstant" >>)

\* The handler registered for each tool.
Handle(in) ==
    CASE in.tool = "list_databases" -> createListDatabasesHandler(in)
      [] in.tool \in SqlTools -> createExecuteSQLHandler(in)
      [] in.tool = "status" -> createStatusHandler(in)
      [] in.tool = "query_range" -> createQueryRangeHandler(in)
      [] in.tool = "common_metrics" -> createCommonMetricsHandler(in)
      [] OTHER -> createQueryHandler(in)

(* The database list, part_007:336-359 *)
\* The elements a JSON array in the answer can have: two database objects,
\* null, and a value that is not an object.
DbElems == {"d1", "d2", "null", "bad"}

\* The body of the answer: not JSON, null, a scalar, an array, or an object
\* whose `result` member is absent, null, a scalar, an object or an array.
DbBodies ==
    [kind : {"invalid", "null", "scalar"}, member : {"absent"},
     items : {<< >>}]
    \cup [kind : {"array"}, member : {"absent"},
          items : SeqsUpTo(DbElems, MaxItems)]
    \cup [kind : {"object"}, member : {"absent", "null", "scalar", "object"},
          items : {<< >>}]
    \cup [kind : {"object"}, member : {"array"},
          items : SeqsUpTo(DbElems, MaxItems)]

DbResponses == [status : {200, 500}, body : DbBodies]

\* json.Unmarshal of one array element into a Database (part_007:50-57):
\* null leaves the zero value.
DecodeDatabase(e) ==
    CASE e = "d1" -> [ID |-> 1, DatabaseName |-> "one"]
      [] e = "d2" -> [ID |-> 2, DatabaseName |-> "two"]
      [] OTHER -> [ID |-> 0, DatabaseName |-> ""]

\* json.Unmarshal of a JSON array into []Database.
UnmarshalDatabases(items) ==
    IF \E i \in 1 .. Len(items) : items[i] = "bad"
    THEN [ok |-> FALSE, list |-> << >>]
    ELSE [ok |-> TRUE,
          list |-> [i \in 1 .. Len(items) |-> DecodeDatabase(items[i])]]

\* json.Unmarshal(body, &result) with result struct{ Result []Database }
\* (part_007:346-350): null and an object without `result` (or with a null
\* one) leave Result nil without an error.
UnmarshalEnvelope(body) ==
    CASE body.kind = "null" -> [ok |-> TRUE, list |-> << >>]
      [] body.kind = "object" /\ body.member \in {"absent", "null"} ->
            [ok |-> TRUE, list |-> << >>]
      [] body.kind = "object" /\ body.member = "array" ->
            UnmarshalDatabases(body.items)
      [] OTHER -> [ok |-> FALSE, list |-> << >>]

\* json.Unmarshal(body, &databases) with databases []Database
\* (part_007:352-353).
UnmarshalArray(body) ==
    CASE body.kind = "array" -> UnmarshalDatabases(body.items)
      [] body.kind = "null" -> [ok |-> TRUE, list |-> << >>]
      [] OTHER -> [ok |-> FALSE, list |-> << >>]

\* A GetDatabases that knows the envelope only.
GetDatabasesEnvelopeOnly(resp) ==
    IF resp.status # 200 THEN [err |-> "status", list |-> << >>]
    ELSE IF UnmarshalEnvelope(resp.body).ok
         THEN [err |-> "nil", list |-> UnmarshalEnvelope(resp.body).list]
    ELSE [err |-> "parse", list |-> << >>]

\* GetDatabases from the status check on, part_007:342-359.
GetDatabasesResult(resp) ==
    IF resp.status # 200 THEN [err |-> "status", list |-> << >>]
    ELSE IF UnmarshalEnvelope(resp.body).ok
         THEN [err |-> "nil", list |-> UnmarshalEnvelope(resp.body).list]
    ELSE IF UnmarshalArray(resp.body).ok
         THEN [err |-> "nil", list |-> UnmarshalArray(resp.body).list]
    ELSE [err |-> "parse", list |-> << >>]

(* SQL execution, part_007:408-458 *)
RowKeys == {"a", "b"}
ColNames == RowKeys \cup {""}
CellValues == {"x", "y"}
JsonNull == "null"

\* A row object of `data` as it stands in the body: its members in text
\* order, each key once.
RowObjects ==
    {r \in SeqsUpTo(RowKeys \X CellValues, Cardinality(RowKeys)) :
        \A i, j \in 1 .. Len(r) : i # j => r[i][1] # r[j][1]}

\* The answer: its status, whether the body decodes into the response
\* struct, the `name` of each entry of `columns` ("" when the entry has
\* none) and the rows of `data`.
SqlResponses ==
    [status : {200, 500}, valid : BOOLEAN,
     columns : SeqsUpTo(ColNames, MaxCols),
     data : SeqsUpTo(RowObjects, MaxRows)]

\* row[col.Name] on the decoded map[string]any (part_007:447): the value
\* of the member with that key, nil when there is none.
RowGet(row, key) ==
    IF \E i \in 1 .. Len(row) : row[i][1] = key
    THEN row[CHOOSE i \in 1 .. Len(row) : row[i][1] = key][2]
    ELSE JsonNull

\* A row taken in the order of its own members.
ProjectRowInKeyOrder(row, cols) == [i \in 1 .. Len(row) |-> row[i][2]]

\* part_007:444-449: one value per column, in column order.
ProjectRow(row, cols) == [i \in 1 .. Len(cols) |-> RowGet(row, cols[i])]

\* executeSQLInternal from the status check on, part_007:415-458.
executeSQLInternalResult(resp) ==
    IF resp.status # 200
    THEN [err |-> "status", Columns |-> << >>, Data |-> << >>]
    ELSE IF ~resp.valid
    THEN [err |-> "parse", Columns |-> << >>, Data |-> << >>]
    ELSE [err |-> "nil",
          Columns |-> resp.columns,
          Data |-> [r \in 1 .. Len(resp.data) |->
                       ProjectRow(resp.data[r], resp.columns)]]

NoToolCall == [tool |-> None, client |-> "nil", id |-> << >>,
               steps |-> [i \in 1 .. 3 |-> "ok"], payload |-> "value",
               start |-> "", end |-> "", step |-> "", metric |-> ""]
NoToolResult == [result |-> NilResult, err |-> "nil", calls |-> << >>]
NoDbResp == [status |-> 0,
             body |-> [kind |-> "invalid", member |-> "absent",
                       items |-> << >>]]
NoDbList == [err |-> "nil", list |-> << >>]
NoSqlResp == [status |-> 0, valid |-> FALSE, columns |-> << >>,
              data |-> << >>]
NoSqlResult == [err |-> "nil", Columns |-> << >>, Data |-> << >>]

\* No call and no backend answer in view.
IoInit ==
    /\ ioPc = "idle"
    /\ toolCall = NoToolCall
    /\ toolResult = NoToolResult
    /\ dbResp = NoDbResp
    /\ dbList = NoDbList
    /\ sqlResp = NoSqlResp
    /\ sqlResult = NoSqlResult

\* The protocol layer invokes a tool's handler, which returns.
CallTool(in) ==
    /\ ioPc = "idle"
    /\ ioPc' = "tool"
    /\ toolCall' = in
    /\ toolResult' = Handle(in)
    /\ UNCHANGED << gwVars, ssVars, rgVars, suVars, dbResp, dbList, sqlResp,
                    sqlResult >>

\* The backend answers the database-list request and GetDatabases returns.
DbResponse(resp) ==
    /\ ioPc = "idle"
    /\ ioPc' = "db"
    /\ dbResp' = resp
    /\ dbList' = GetDatabasesResult(resp)
    /\ UNCHANGED << gwVars, ssVars, rgVars, suVars, toolCall, toolResult,
                    sqlResp, sqlResult >>

\* The backend answers the SQL request and executeSQLInternal returns.
SqlResponse(resp) ==
    /\ ioPc = "idle"
    /\ ioPc' = "sql"
    /\ sqlResp' = resp
    /\ sqlResult' = executeSQLInternalResult(resp)
    /\ UNCHANGED << gwVars, ssVars, rgVars, suVars, toolCall, toolResult,
                    dbResp, dbList >>

\* The caller has its answer; the next call starts afresh.
IoReturn ==
    /\ ioPc # "idle"
    /\ ioPc' = "idle"
    /\ toolCall' = NoToolCall
    /\ toolResult' = NoToolResult
    /\ dbResp' = NoDbResp
    /\ dbList' = NoDbList
    /\ sqlResp' = NoSqlResp
    /\ sqlResult' = NoSqlResult
    /\ UNCHANGED << gwVars, ssVars, rgVars, suVars >>

IoNext ==
    \/ \E in \in ToolCalls : CallTool(in)
    \/ \E resp \in DbResponses : DbResponse(resp)
    \/ \E resp \in SqlResponses : SqlResponse(resp)
    \/ IoReturn

vars == << gwVars, ssVars, rgVars, suVars, ioVars >>


(***************************************************************************)
(* Session claims.                                                         *)
(***************************************************************************)
\* A finished call of operation o.
Finished(c, o) == pc[c] = "done" /\ call[c].op = o

\* Caller c takes the step that leaves position p.
Leaves(c, p) == pc[c] = p /\ pc'[c] # p

\* The call of c issued request k.
Issued(c, k) == \E i \in 1 .. Len(call[c].reqs) : call[c].reqs[i] = k

\* Two GetCSRFToken calls that both began on a cache never written, with
\* no fetch ending in an error.
TwoOnEmptyCache(c1, c2) ==
    /\ c1 # c2
    /\ Finished(c1, "GetCSRFToken") /\ Finished(c2, "GetCSRFToken")
    /\ call[c1].startFresh /\ call[c2].startFresh
    /\ fetchFails = 0

OneFetchInAll(c1, c2) ==
    /\ fetchCount = 1
    /\ call[c1].result = "ok" /\ call[c2].result = "ok"
    /\ call[c1].tok = call[c2].tok
    /\ Issued(c1, "csrfGet") # Issued(c2, "csrfGet")

\* C4 as stated: two concurrent GetCSRFToken calls on an empty cache whose
\* fetch succeeds issue exactly one fetch in all, and both return the token
\* the first one wrote.
C4_OneFetchForTwo ==
    \A c1, c2 \in Callers :
        TwoOnEmptyCache(c1, c2) => OneFetchInAll(c1, c2)

\* C4 amended: the same, provided the fetched token is not the empty string
\* and has not expired when the second caller checks the cache.
C4_OneFetchWhenTokenHeld ==
    \A c1, c2 \in Callers :
        ( /\ TwoOnEmptyCache(c1, c2)
          /\ cacheLog # << >>
          /\ cacheLog[1].token # EmptyToken
          /\ now < cacheLog[1].expiresAt )
        => OneFetchInAll(c1, c2)

C4_Witness ==
    \E c1, c2 \in Callers :
        /\ TwoOnEmptyCache(c1, c2)
        /\ OneFetchInAll(c1, c2)
        /\ call[c1].tok # EmptyToken
        /\ Issued(c1, "csrfGet")

\* What a getCSRFToken check does when it returns the cached token: no
\* fetch, and the cached token goes to the caller.
ReturnsCached(c) ==
    /\ pc'[c] \in {"done", "api"}
    /\ call'[c].tok = csrfCache.token
    /\ fetchCount' = fetchCount
    /\ csrfCache' = csrfCache

\* What the check under the exclusive lock does when it fetches.
FetchesOnce(c) ==
    /\ pc'[c] = "csrf_get"
    /\ fetchCount' = fetchCount + 1
    /\ ~Issued(c, "csrfGet")

\* The end of a fetch that found a token: it is cached with expiry
\* (time the entry was built) + time-to-live, and returned.
StoresFresh(c) ==
    /\ csrfCache' = call[c].newCache
    /\ call'[c].tok = call[c].newCache.token
    /\ call[c].newCache.token \in {EmptyToken, fetchCount}

\* C5 as stated: a check made at now >= expiresAt never returns the cached
\* token but fetches, exactly once; a check made at now < expiresAt returns
\* the cached token with no fetch.
C5_ExpiryDecides ==
    [][\A c \in Callers :
         /\ Leaves(c, "csrf_check") =>
               IF now < csrfCache.expiresAt
               THEN ReturnsCached(c)
               ELSE pc'[c] = "csrf_lock" /\ fetchCount' = fetchCount
         /\ Leaves(c, "csrf_lock") =>
               IF now < csrfCache.expiresAt
               THEN ReturnsCached(c)
               ELSE FetchesOnce(c)
         /\ Leaves(c, "csrf_store_expiry") => StoresFresh(c)]_vars

\* C5 amended: a check that finds a non-empty cached token with
\* now < expiresAt returns it with no fetch; every other check returns no
\* cached token: the lock-free one goes on to the exclusive lock, the one
\* under the exclusive lock issues the call's single fetch, and a fetch
\* that finds a token caches it with expiry (build time + time-to-live)
\* and returns it.
C5_ValidityDecides ==
    [][\A c \in Callers :
         /\ Leaves(c, "csrf_check") =>
               IF csrfCache.token # EmptyToken /\ now < csrfCache.expiresAt
               THEN ReturnsCached(c)
               ELSE pc'[c] = "csrf_lock" /\ fetchCount' = fetchCount
         /\ Leaves(c, "csrf_lock") =>
               IF csrfCache.token # EmptyToken /\ now < csrfCache.expiresAt
               THEN ReturnsCached(c)
               ELSE FetchesOnce(c)
         /\ (pc[c] = "csrf_get" /\ pc'[c] = "csrf_store_token") =>
               call'[c].newCache.expiresAt = now + csrfTokenCacheDuration
         /\ Leaves(c, "csrf_store_expiry") => StoresFresh(c)]_vars

\* A call found the cached token expired, fetched once, and returned the
\* token it fetched, now cached.
C5_Witness ==
    \E c \in Callers :
        /\ Finished(c, "GetCSRFToken")
        /\ ~call[c].startFresh
        /\ call[c].result = "ok"
        /\ Issued(c, "csrfGet")
        /\ Len(cacheLog) = 2
        /\ call[c].tok = cacheLog[2].token
        /\ csrfCache = cacheLog[2]
        /\ cacheLog[1].token # EmptyToken
        /\ cacheLog[1].expiresAt <= now

\* Two EnsureLoggedIn calls that both began logged out, with no login
\* attempt refused (valid credentials, a backend that answers).
TwoLoggedOut(c1, c2) ==
    /\ c1 # c2
    /\ Finished(c1, "EnsureLoggedIn") /\ Finished(c2, "EnsureLoggedIn")
    /\ ~call[c1].startLogged /\ ~call[c2].startLogged
    /\ loginFails = 0

\* C6: two concurrent EnsureLoggedIn calls on a logged-out client with
\* valid credentials send exactly one login POST; both return nil and
\* loggedIn is true.
C6_SingleLoginPost ==
    \A c1, c2 \in Callers :
        TwoLoggedOut(c1, c2) =>
            /\ postCount = 1
            /\ call[c1].result = "ok" /\ call[c2].result = "ok"
            /\ loggedIn
            /\ Issued(c1, "loginPost") # Issued(c2, "loginPost")

C6_Witness ==
    \E c1, c2 \in Callers :
        /\ TwoLoggedOut(c1, c2)
        /\ postCount = 1
        /\ loggedIn
        /\ Issued(c1, "loginPost") /\ ~Issued(c2, "loginGet")

\* A logged-out client sends the next EnsureLoggedIn call into Login, and
\* Login into a new attempt.
RetriesLogin(c) ==
    /\ (Leaves(c, "ens_check") /\ ~loggedIn) => pc'[c] = "login_lock"
    /\ (Leaves(c, "login_lock") /\ ~loggedIn) => pc'[c] = "login_get"

\* C7: a login response whose body contains a failure marker
\* makes the call return an error and leaves loggedIn false, so the next
\* EnsureLoggedIn attempts the login again.
C7_MarkerFailsLogin ==
    [][\A c \in Callers :
         /\ (Leaves(c, "login_classify") /\ loginResp.errMarker) =>
               /\ call'[c].result \in LoginErrors
               /\ pc'[c] = "done"
               /\ ~loggedIn'
         /\ RetriesLogin(c)]_vars

\* One call was refused for its credentials; the client is logged out and
\* the next EnsureLoggedIn is in a new login attempt.
C7_Witness ==
    \E c1, c2 \in Callers :
        /\ pc[c1] = "done" /\ call[c1].result = "login_invalid"
        /\ ~loggedIn
        /\ call[c2].op = "EnsureLoggedIn" /\ pc[c2] = "login_get"

\* Every complete state the cache has had.
Committed == {ZeroCache} \cup {cacheLog[i] : i \in 1 .. Len(cacheLog)}

LoginInFlight == {c \in Callers : pc[c] \in {"login_get", "login_post",
                                              "login_classify"}}
FetchInFlight == {c \in Callers : pc[c] \in {"csrf_get", "csrf_store_token",
                                              "csrf_store_expiry"}}

\* C8: at most one login attempt and at most one token fetch are in flight
\* at any time, and whoever reads the session state (a holder of the read
\* lock, or anybody while no writer holds the lock) sees the token and
\* expiresAt of one and the same write.
C8_OneRefreshAtomicView ==
    /\ Cardinality(LoginInFlight) <= 1
    /\ Cardinality(FetchInFlight) <= 1
    /\ (mu.readers # {} \/ mu.writer = NoCaller) => csrfCache \in Committed
    /\ mu.readers # {} => LoginInFlight = {} /\ FetchInFlight = {}

\* A store is half done (token new, expiresAt old) while the other caller
\* waits to read.
C8_Witness ==
    \E c1, c2 \in Callers :
        /\ pc[c1] = "csrf_store_expiry"
        /\ pc[c2] = "csrf_rlock"
        /\ csrfCache \notin Committed

\* C9: a call whose context is cancelled while it waits for c.mu, held by
\* another goroutine, can return (with an error) without the lock being
\* released first.
C9_CancelledWaiterReturns ==
    \A c \in Callers :
        ( /\ pc[c] \in {"login_lock", "csrf_lock"}
          /\ call[c].cancelled
          /\ mu.writer \notin {NoCaller, c} )
        => ENABLED (LoginLock(c) \/ CsrfLock(c))

\* The order in which one GetDatabases/ExecuteSQL call issues its requests.
ReqOrder == << "loginGet", "loginPost", "csrfGet", "api" >>
Rank(k) == CHOOSE i \in 1 .. Len(ReqOrder) : ReqOrder[i] = k
InOrder(s) == \A i, j \in 1 .. Len(s) : i < j => Rank(s[i]) < Rank(s[j])

\* C10: GetDatabases and ExecuteSQL go through EnsureLoggedIn, then
\* GetCSRFToken, then the API request, which carries the token GetCSRFToken
\* returned; a failed EnsureLoggedIn is followed by no token fetch and no
\* API request, a failed GetCSRFToken by no API request.
C10_LoginThenTokenThenApi ==
    \A c \in Callers :
        call[c].op \in ApiOps =>
            /\ InOrder(call[c].reqs)
            /\ Issued(c, "api") => loggedIn
            /\ pc[c] = "api" =>
                  /\ call[c].hdr = call[c].tok
                  /\ \/ \E i \in 1 .. Len(cacheLog) :
                           cacheLog[i].token = call[c].tok
            /\ pc[c] \in {"csrf_rlock", "csrf_check", "csrf_lock", "csrf_get",
                          "csrf_store_token", "csrf_store_expiry"} => loggedIn
            /\ (pc[c] = "done" /\ call[c].result \in LoginErrors) =>
                  ~Issued(c, "csrfGet") /\ ~Issued(c, "api")
            /\ (pc[c] = "done" /\ call[c].result \in CsrfErrors) =>
                  ~Issued(c, "api")
            /\ (pc[c] = "done" /\ call[c].result \in {"ok"} \cup ApiErrors) =>
                  Issued(c, "api")

\* One call that logged in, fetched the token and made the API request.
C10_Witness ==
    \E c \in Callers :
        /\ pc[c] = "done"
        /\ call[c].op \in ApiOps
        /\ call[c].result = "ok"
        /\ call[c].reqs = ReqOrder

(***************************************************************************)
(* Session claims: no retries, what counts as a login, Login and the       *)
(* token cache.                                                            *)
(***************************************************************************)
\* The positions of a call in the order the code reaches them.
PcOrder == << "ens_rlock", "ens_check", "login_lock", "login_get",
              "login_post", "login_classify", "csrf_rlock", "csrf_check",
              "csrf_lock", "csrf_get", "csrf_store_token",
              "csrf_store_expiry", "api", "done" >>
PcRank(q) == CHOOSE i \in 1 .. Len(PcOrder) : PcOrder[i] = q
Count(s, k) == Cardinality({i \in 1 .. Len(s) : s[i] = k})
Failures == LoginErrors \cup CsrfErrors \cup ApiErrors

\* C28: a GetDatabases or ExecuteSQL call never goes back to a step it has
\* passed, issues each of its four requests at most once, and the step in
\* which it fails is its last: it returns the error and issues nothing
\* more.
C28_NoRetry ==
    [][\A c \in Callers :
         (call[c].op \in ApiOps /\ pc[c] \notin {"idle", "done"}) =>
            /\ pc'[c] # pc[c] => PcRank(pc'[c]) > PcRank(pc[c])
            /\ \A k \in {"loginGet", "loginPost", "csrfGet", "api"} :
                  Count(call'[c].reqs, k) <= 1
            /\ call'[c].result \in Failures =>
                  /\ pc'[c] = "done"
                  /\ call'[c].reqs = call[c].reqs
            /\ (pc[c] = "login_get" /\ pc'[c] \notin {"login_get", "login_post"}) =>
                  call'[c].result \in LoginErrors
            /\ (pc[c] = "login_classify" /\ pc'[c] = "done") =>
                  call'[c].result \in LoginErrors
            /\ (pc[c] = "csrf_get" /\ pc'[c] = "done") =>
                  call'[c].result \in CsrfErrors ]_vars

\* One call failed at the API request after all four requests, another
\* failed at the token fetch after its single GET.
C28_Witness ==
    \E c1, c2 \in Callers :
        /\ pc[c1] = "done" /\ call[c1].op \in ApiOps
        /\ call[c1].result \in ApiErrors
        /\ call[c1].reqs = ReqOrder
        /\ pc[c2] = "done" /\ call[c2].op \in ApiOps
        /\ call[c2].result \in CsrfErrors
        /\ call[c2].reqs = << "csrfGet" >>

\* What Login accepts as a successful answer to the POST.
LoginAccepted(r) ==
    \/ r.status \in {302, 303} /\ isSuccessfulRedirect(r.location)
    \/ r.status = 200 /\ r.okMarker /\ ~r.errMarker

\* C29: loggedIn becomes true only in the step where Login has an accepted
\* answer to its POST (a 302/303 to a post-login location, or a 200 page
\* with the success markers and no failure marker); when Login ends on
\* anything else it returns an error and loggedIn is false.
C29_LoggedInOnlyOnAcceptedAnswer ==
    [][ /\ (~loggedIn /\ loggedIn') =>
              \E c \in Callers :
                  Leaves(c, "login_classify") /\ LoginAccepted(loginResp)
        /\ \A c \in Callers :
              /\ (Leaves(c, "login_classify") /\ LoginAccepted(loginResp)) =>
                    loggedIn' /\ call'[c].result \notin LoginErrors
              /\ (Leaves(c, "login_classify") /\ ~LoginAccepted(loginResp)) =>
                    /\ ~loggedIn'
                    /\ pc'[c] = "done"
                    /\ call'[c].result \in LoginErrors
              /\ (Leaves(c, "login_get") /\ pc'[c] # "login_post") =>
                    /\ ~loggedIn'
                    /\ pc'[c] = "done"
                    /\ call'[c].result \in LoginErrors ]_vars

\* One Login was turned down on a 200 page without markers, then another
\* logged the client in.
C29_Witness ==
    \E c1, c2 \in Callers :
        /\ pc[c1] = "done" /\ call[c1].result = "login_failed"
        /\ pc[c2] = "done" /\ call[c2].op = "Login" /\ call[c2].result = "ok"
        /\ Issued(c2, "loginPost")
        /\ loggedIn

LoginPcs == {"login_lock", "login_get", "login_post", "login_classify"}

\* C30: no step of Login changes the cached token or its expiry, and a
\* Login that finds the client logged out fetches the login page for a
\* fresh token whether or not the cache holds a valid one.
C30_LoginLeavesCache ==
    [][\A c \in Callers :
         /\ (pc[c] \in LoginPcs /\ (pc'[c] # pc[c] \/ call'[c] # call[c])) =>
               csrfCache' = csrfCache /\ cacheLog' = cacheLog
         /\ (Leaves(c, "login_lock") /\ ~loggedIn) =>
               /\ pc'[c] = "login_get"
               /\ call'[c].reqs = Append(call[c].reqs, "loginGet")
               /\ call'[c].tok = call[c].tok ]_vars

\* A Login that began with a token in the cache fetched its own token,
\* succeeded, and the cached token is still valid.
C30_Witness ==
    \E c \in Callers :
        /\ pc[c] = "done" /\ call[c].op = "Login" /\ call[c].result = "ok"
        /\ ~call[c].startFresh
        /\ call[c].reqs = << "loginGet", "loginPost" >>
        /\ CacheValid(csrfCache, now)
        /\ cacheLog = << csrfCache >>

\* C31: a failed token fetch makes getCSRFToken return an error and no
\* token and leaves the cache and everything ever stored in it as they
\* were, the cache still holding no valid token, and a getCSRFToken that
\* finds no valid token under the lock fetches the page.
C31_FailedFetchLeavesCache ==
    [][\A c \in Callers :
         /\ (Leaves(c, "csrf_get") /\ pc'[c] # "csrf_store_token") =>
               /\ pc'[c] = "done"
               /\ call'[c].result \in CsrfErrors
               /\ call'[c].tok = EmptyToken
               /\ csrfCache' = csrfCache
               /\ cacheLog' = cacheLog
               /\ ~CacheValid(csrfCache', now')
         /\ (Leaves(c, "csrf_lock") /\ ~CacheValid(csrfCache, now)) =>
               /\ pc'[c] = "csrf_get"
               /\ fetchCount' = fetchCount + 1 ]_vars

\* One call's fetch failed and the next call fetched again and got a token.
C31_Witness ==
    \E c1, c2 \in Callers :
        /\ pc[c1] = "done" /\ call[c1].result \in CsrfErrors
        /\ pc[c2] = "done" /\ call[c2].op = "GetCSRFToken"
        /\ call[c2].result = "ok" /\ call[c2].tok # EmptyToken
        /\ fetchFails = 1
        /\ fetchCount = 2
        /\ cacheLog = << csrfCache >>

\* C32: loggedIn never goes back to false; the step in which an API
\* request returns, failed or not, changes neither loggedIn nor the cache;
\* and a call that began with the client logged in issues no login request.
C32_SessionNeverInvalidated ==
    [][ /\ loggedIn => loggedIn'
        /\ \A c \in Callers :
              /\ Leaves(c, "api") =>
                    /\ loggedIn' = loggedIn
                    /\ csrfCache' = csrfCache
                    /\ cacheLog' = cacheLog
              /\ call'[c].startLogged =>
                    /\ Count(call'[c].reqs, "loginGet") = 0
                    /\ Count(call'[c].reqs, "loginPost") = 0 ]_vars

\* An API call failed at the backend; a later API call went through without
\* a login.
C32_Witness ==
    \E c1, c2 \in Callers :
        /\ pc[c1] = "done" /\ call[c1].result \in ApiErrors
        /\ pc[c2] = "done" /\ call[c2].op \in ApiOps
        /\ call[c2].startLogged
        /\ call[c2].result = "ok"
        /\ call[c2].reqs = << "api" >>
        /\ loggedIn

(***************************************************************************)
(* Gateway claims: RemoveService and the status page.                      *)
(***************************************************************************)
\* The table loses the mapping of path p in this step.
Unmounts(p) == services[p] # None /\ services'[p] = None

\* C21: a step that removes the mapping of a path calls Close() once on the
\* adapter that was mounted there and leaves every other mapping as it
\* was; outside Shutdown no Close() is called except in such a step, so a
\* RemoveService of a path with no adapter closes nothing and changes no
\* mapping.
C21_RemoveClosesAndUnmounts ==
    [][ /\ \A p \in Endpoints :
              Unmounts(p) =>
                 /\ closeCalls' = [closeCalls EXCEPT ![services[p]] = @ + 1]
                 /\ \A q \in Endpoints \ {p} : services'[q] = services[q]
        /\ (closeCalls' # closeCalls /\ shutClosed' = shutClosed) =>
              \E p \in Endpoints : Unmounts(p)
        /\ (gwOps' # gwOps /\ \A p \in Endpoints : services'[p] = services[p]) =>
              closeCalls' = closeCalls ]_vars

\* An adapter was removed and closed while the other path stayed mounted.
C21_Witness ==
    \E a \in Adapters, q \in Endpoints :
        /\ shutPc = "idle"
        /\ closeCalls[a] = 1
        /\ services[GetEndpoint(a)] = None
        /\ q # GetEndpoint(a)
        /\ services[q] # None

\* C26: each rendering of the status page lists exactly one entry per path
\* mounted in the routing table at that time, every entry available.
C26_PageListsLiveTable ==
    [][ (lastReq' # lastReq /\ lastReq'.to = "status") =>
          /\ \A p \in Endpoints :
                services[p] # None <=>
                   \E e \in lastReq'.page : e.Endpoint = p
          /\ Cardinality(lastReq'.page) =
                Cardinality({p \in Endpoints : services[p] # None})
          /\ \A e \in lastReq'.page :
                e.Available /\ e.Type = GetType(services[e.Endpoint]) ]_vars

\* The page lists an adapter mounted after Start and omits a path that was
\* mounted at Start and removed since.
C26_Witness ==
    /\ lastReq.to = "status"
    /\ \E e \in lastReq.page : services[e.Endpoint] \in addedLive
    /\ \E p \in Endpoints :
          /\ servicesCopy[p] # None
          /\ \A e \in lastReq.page : e.Endpoint # p

\* C27: a request to "/" is answered with the status page, and a request to
\* a path that is neither "/" nor the path of a mounted adapter with 404.
C27_RootPageElse404 ==
    lastReq.path # None =>
        /\ lastReq.path = rootPath => lastReq.to = "status"
        /\ (lastReq.path # rootPath /\ lastReq.mounted = None) =>
              lastReq.to = "notfound"

(***************************************************************************)
(* Gateway claims: closing adapters and stopping the listener.             *)
(***************************************************************************)
\* C33: a request is dispatched to an adapter only while Close() has not
\* been called on that adapter.
C33_NoDispatchAfterClose ==
    [][ (lastReq' # lastReq /\ lastReq'.to \in Adapters) =>
           closeCalls[lastReq'.to] = 0 ]_vars

\* C34: once Shutdown has returned the gateway is not accepting
\* connections.
C34_ShutdownStopsListening == shutPc = "done" => ~listening

\* C35: Close() is called at most once on each adapter.
C35_CloseAtMostOnce == \A a \in Adapters : closeCalls[a] <= 1

\* A Shutdown that took its snapshot earlier still has adapter a to close.
HeldByShutdown(a) == shutPc = "closing" /\ a \in shutCopy

\* C36: a step that mounts an adapter changes the mapping of that
\* adapter's own path only and calls no Close(); and an adapter that was
\* overwritten at its path is not closed by a RemoveService or by a
\* Shutdown that starts afterwards (a Shutdown that had taken its snapshot
\* before the overwrite still closes it).
C36_AddOverwritesWithoutClose ==
    [][ /\ \A p \in Endpoints :
              (services'[p] # services[p] /\ services'[p] # None) =>
                 /\ GetEndpoint(services'[p]) = p
                 /\ \A q \in Endpoints \ {p} : services'[q] = services[q]
                 /\ closeCalls' = closeCalls
        /\ \A p \in Endpoints :
              (lastReplaced[p] # None /\ ~HeldByShutdown(lastReplaced[p])) =>
                 /\ closeCalls'[lastReplaced[p]] = closeCalls[lastReplaced[p]]
                 /\ (shutPc = "idle" /\ shutPc' = "closing") =>
                        lastReplaced[p] \notin shutCopy' ]_vars

\* An adapter was overwritten at its path; Shutdown then ran to its end,
\* closed the adapter mounted in its place and never closed the replaced one.
C36_Witness ==
    \E p \in Endpoints :
        /\ lastReplaced[p] # None
        /\ shutPc = "done"
        /\ closeCalls[lastReplaced[p]] = 0
        /\ services[p] # None
        /\ closeCalls[services[p]] = 1

(***************************************************************************)
(* Shutdown claims.                                                        *)
(***************************************************************************)
\* Shutdown has called Close() on every adapter of its snapshot.
AllCloseAttempted == \A a \in shutCopy : shutClosed[a] # None

\* C20: Shutdown calls Close() on every adapter mounted when it takes its
\* snapshot, goes on with the next adapter whatever a Close() returns, and
\* shuts the HTTP server down only after every Close() has been attempted;
\* a Close() error makes it skip neither another adapter nor the drain.
C20_ClosesAllThenDrains ==
    [][ /\ (shutPc = "idle" /\ shutPc' # "idle") =>
              shutCopy' = {services[p] : p \in Endpoints} \ {None}
        /\ (shutPc = "closing" /\ shutClosed' # shutClosed) =>
              shutPc' = "closing"
        /\ shutPc' = "done" => AllCloseAttempted'
        /\ (shutPc = "closing" /\ shutPc' = "done" /\ serverSet) =>
              serverShut' /\ ~listening'
        /\ (~serverShut /\ serverShut') => AllCloseAttempted ]_vars

\* Shutdown closed two adapters, one of whose Close() failed, and then shut
\* the HTTP server down.
C20_Witness ==
    /\ shutPc = "done"
    /\ serverShut
    /\ \E a, b \in shutCopy : shutClosed[a] = "err" /\ shutClosed[b] = "ok"

(***************************************************************************)
(* Registry claims.                                                        *)
(***************************************************************************)
\* Thread t has finished a call of operation o.
RegFinished(t, o) == rpc[t] = "done" /\ rcall[t].op = o

\* Thread t takes a step of the call it is in.
RegSteps(t) == rpc'[t] # rpc[t] /\ rpc[t] \notin {"idle", "done"}

\* C11: CreateService for a kind that has no factory when it is looked up
\* returns the UnsupportedServiceError of that kind and invokes no factory.
C11_UnsupportedKindFails ==
    \A t \in RegThreads :
        /\ (RegFinished(t, "CreateService") /\ rcall[t].atLookup = None) =>
              /\ rcall[t].result = UnsupportedServiceError(rcall[t].kind)
              /\ rcall[t].invoked = << >>
        /\ rpc[t] = "cr_invoke" => rcall[t].atLookup # None

\* A kind without a factory was refused while the other kind had one.
C11_Witness ==
    \E t \in RegThreads :
        /\ RegFinished(t, "CreateService")
        /\ rcall[t].result = UnsupportedServiceError(rcall[t].kind)
        /\ RegisteredKinds(serviceFactories) # {}
        /\ serviceFactories[rcall[t].kind] = None

\* C12: CreateService for a kind that has a factory when it is looked up
\* invokes that factory, once, and no other.
C12_InvokesThatFactoryOnce ==
    \A t \in RegThreads :
        /\ (RegFinished(t, "CreateService") /\ rcall[t].atLookup # None) =>
              /\ rcall[t].invoked = << rcall[t].atLookup >>
              /\ rcall[t].result \in FactoryResults
        /\ (rpc[t] = "cr_invoke" /\ rcall[t].atLookup # None) =>
              /\ rcall[t].factory = rcall[t].atLookup
              /\ rcall[t].invoked = << >>

\* A factory was invoked for its kind while the other kind had another one.
C12_Witness ==
    \E t \in RegThreads, j \in Kinds :
        /\ RegFinished(t, "CreateService")
        /\ rcall[t].invoked = << rcall[t].atLookup >>
        /\ j # rcall[t].kind
        /\ serviceFactories[j] \notin {None, rcall[t].atLookup}

\* C39: a CreateService call that ends in an error ends in the
\* UnsupportedServiceError of its kind when the kind had no factory, and in
\* a ServiceCreationError when its factory failed; no factory fails with an
\* error that is not a ServiceCreationError.
C39_ErrorsAreUnsupportedOrCreation ==
    \A t \in RegThreads :
        RegFinished(t, "CreateService") =>
            IF rcall[t].atLookup = None
            THEN rcall[t].result = UnsupportedServiceError(rcall[t].kind)
            ELSE rcall[t].result \in {"ok", "creation_error"}

\* C13: the store of RegisterServiceFactory(kind, factory) makes factory the
\* entry of kind and leaves every other entry alone, storing the entry a
\* kind already has changes nothing, and no other step changes the map.
C13_LastRegistrationWins ==
    [][ /\ \A t \in RegThreads :
              (rpc[t] = "reg_store" /\ rpc'[t] # "reg_store") =>
                 /\ serviceFactories'[rcall[t].kind] = rcall[t].factory
                 /\ \A j \in Kinds \ {rcall[t].kind} :
                       serviceFactories'[j] = serviceFactories[j]
                 /\ serviceFactories[rcall[t].kind] = rcall[t].factory =>
                       serviceFactories' = serviceFactories
        /\ (\A t \in RegThreads : rpc[t] # "reg_store") =>
              serviceFactories' = serviceFactories ]_vars

\* Two registrations for one kind with different factories are done, and
\* the map holds one of the two.
C13_Witness ==
    \E t, u \in RegThreads :
        /\ RegFinished(t, "RegisterServiceFactory")
        /\ RegFinished(u, "RegisterServiceFactory")
        /\ rcall[t].kind = rcall[u].kind
        /\ rcall[t].factory # rcall[u].factory
        /\ serviceFactories[rcall[t].kind] = rcall[t].factory

\* C14: GetSupportedServiceTypes returns exactly the kinds that are in the
\* factory map when it returns, in a slice that shares no storage with the
\* cache.
C14_ListingIsCurrentCopy ==
    [][\A t \in RegThreads :
          ( /\ rcall[t].op = "GetSupportedServiceTypes"
            /\ rpc[t] # "done" /\ rpc'[t] = "done" ) =>
             /\ rcall'[t].out.items = RegisteredKinds(serviceFactories)
             /\ rcall'[t].out.buf # supportedTypesCache'.buf]_vars

\* Positions whose next step reads, or writes, registry state.
RegReading(t) ==
    rpc[t] \in {"cr_lookup", "is_lookup", "sup_check", "sup_copy", "sup_build"}
RegWriting(t) ==
    rpc[t] \in {"reg_store", "reg_invalidate", "sup_alloc", "sup_fill",
                "sup_flag"}

\* C15: no thread is about to write registry state (the factory map, the
\* cache, the cache-valid flag) while another thread is reading or writing
\* registry state.
C15_WritersExcludeAll ==
    \A t, u \in RegThreads :
        (t # u /\ RegWriting(t)) => ~RegReading(u) /\ ~RegWriting(u)

RegistryState == << serviceFactories, supportedTypesCache, cacheValid >>

LookupOps == {"CreateService", "GetSupportedServiceTypes",
              "IsServiceTypeSupported"}

\* C16 as stated: no step of CreateService, GetSupportedServiceTypes or
\* IsServiceTypeSupported changes the factory map, the cache or the flag.
C16_LookupsChangeNothing ==
    [][\A t \in RegThreads :
          (RegSteps(t) /\ rcall[t].op \in LookupOps) =>
             RegistryState' = RegistryState]_vars

\* C16 amended: CreateService and IsServiceTypeSupported change none of the
\* three; GetSupportedServiceTypes never changes the factory map, changes
\* neither the cache nor the flag when its check finds the cache valid, and
\* otherwise only rebuilds the cache and sets the flag.
C16_LookupsOnlyFillCache ==
    [][\A t \in RegThreads :
          /\ (RegSteps(t) /\ rcall[t].op \in {"CreateService",
                                             "IsServiceTypeSupported"}) =>
                RegistryState' = RegistryState
          /\ (RegSteps(t) /\ rcall[t].op = "GetSupportedServiceTypes") =>
                /\ serviceFactories' = serviceFactories
                /\ (rpc[t] = "sup_check" /\ cacheValid
                      /\ supportedTypesCache.buf # 0) => rpc'[t] = "sup_copy"
                /\ rpc[t] \in {"sup_rlock", "sup_check", "sup_copy"} =>
                      RegistryState' = RegistryState
                /\ cacheValid' # cacheValid => cacheValid']_vars

\* One listing was served from the cache that an earlier one had rebuilt.
C16_Witness ==
    \E t, u \in RegThreads :
        /\ RegFinished(t, "GetSupportedServiceTypes")
        /\ RegFinished(u, "GetSupportedServiceTypes")
        /\ rcall[t].types.buf # 0
        /\ rcall[u].types.buf = 0
        /\ rcall[u].out.items = RegisteredKinds(serviceFactories)
        /\ cacheValid

(***************************************************************************)
(* Startup: main and initializeAndRegisterServices, part_003:155-272.      *)
(***************************************************************************)
\* What core.CreateService can return to a worker (part_003:217): a
\* Service, or an error (no factory for the kind, or the factory's error).
CreateResults == {"ok", "creation_error", "unsupported"}

\* What testServiceConnection can return (part_003:224, 275-280).
TestResults == {"ok", "fail"}

\* The url setting of a service in the YAML file: absent/empty, or given.
Urls == {"", "http://backend"}

\* What the YAML file says of one service: its enabled flag, its url, and
\* (Superset) whether user and pass are given (main.go:522-526, 555-561).
\* The Prometheus entry has no credentials to miss.
ServiceFileConfigs(k) ==
    [enabled : BOOLEAN, url : Urls,
     creds : IF k = "superset" THEN BOOLEAN ELSE {TRUE}]

\* setDefaults, main.go:647-674: a service whose url is empty gets the
\* built-in url (Superset: and the built-in user and pass) and
\* Enabled = true.
setDefaults(file) ==
    [k \in Kinds |->
        IF file[k].url = ""
        THEN [enabled |-> TRUE, url |-> "http://default", creds |-> TRUE]
        ELSE file[k]]

\* PrometheusConfig.IsEnabled / SupersetConfig.IsEnabled, main.go:542-544,
\* 577-579.
IsEnabled(c) == c.enabled /\ c.url # ""

\* ValidateConfig, response.go:83-166: an enabled service needs a url, an
\* enabled Superset also user and pass.
ValidateConfig(cfg) ==
    \A k \in Kinds : cfg[k].enabled => (cfg[k].url # "" /\ cfg[k].creds)

\* FilterEnabledServices, response.go:169-185.
FilterEnabledServices(cfg) == {k \in Kinds : IsEnabled(cfg[k])}

\* The files main can be started with: the two service entries, and
\* whether the two endpoint settings name the same path (nothing in config
\* validation keeps them apart), which matters when both are constructed.
FileConfigs ==
    {f \in [service : [prometheus : ServiceFileConfigs("prometheus"),
                        superset : ServiceFileConfigs("superset")],
             shared : BOOLEAN] :
        f.shared => FilterEnabledServices(setDefaults(f.service)) = Kinds}

\* The configuration before any file is read.
NoFile == [k \in Kinds |-> [enabled |-> FALSE, url |-> "", creds |-> TRUE]]

\* The Service a kind's factory builds.  Its endpoint is the configured
\* one: with both endpoint settings equal, the Superset service has the
\* endpoint of the Prometheus one.
AdapterFor(k, cfg) ==
    IF k = "prometheus" THEN "promA"
    ELSE IF cfg.shared THEN "promB" ELSE "superset"

\* Before main loads the configuration.
SuInit ==
    /\ suCfg = [enabled |-> {}, shared |-> FALSE, file |-> NoFile]
    /\ suPc = "load"
    /\ worker = [k \in Kinds |-> "none"]
    /\ built = [k \in Kinds |-> None]
    /\ conn = [k \in Kinds |-> None]
    /\ serviceChan = << >>
    /\ errorChan = << >>
    /\ chansClosed = FALSE
    /\ suServices = << >>
    /\ suErrors = << >>
    /\ suIdx = 0
    /\ suResult = None

\* LoadConfigFromYAML (main.go:622-644): decode, setDefaults, Validate; a
\* configuration that fails validation ends the process.  Then
\* part_003:198-232: the enabled configurations; none is an error, else one
\* goroutine per configuration is started.
LoadConfig(f) ==
    /\ suPc = "load"
    /\ LET loaded == setDefaults(f.service)
           cfg == [enabled |-> IF ValidateConfig(loaded)
                               THEN FilterEnabledServices(loaded) ELSE {},
                   shared |-> f.shared,
                   file |-> [k \in Kinds |-> f.service[k]]]
       IN
       /\ suCfg' = cfg
       /\ IF cfg.enabled = {}
          THEN /\ suPc' = "done"
               /\ suResult' = "error"
               /\ UNCHANGED worker
          ELSE /\ suPc' = "collect_services"
               /\ worker' = [k \in Kinds |->
                                IF k \in cfg.enabled THEN "create" ELSE "none"]
               /\ UNCHANGED suResult
    /\ UNCHANGED << ioVars, gwVars, ssVars, rgVars, built, conn, serviceChan,
                    errorChan, chansClosed, suServices, suErrors, suIdx >>

\* part_003:217-221: core.CreateService; on an error the worker sends it to
\* errorChan and returns.
WorkerCreate(k) ==
    /\ worker[k] = "create"
    /\ \E r \in CreateResults :
          /\ built' = [built EXCEPT ![k] = r]
          /\ worker' = [worker EXCEPT ![k] =
                           IF r = "ok" THEN "test" ELSE "send_error"]
    /\ UNCHANGED << ioVars, gwVars, ssVars, rgVars, suCfg, suPc, conn, serviceChan,
                    errorChan, chansClosed, suServices, suErrors, suIdx,
                    suResult >>

\* Channels that hold nothing: a send waits for its receiver.
ChanCapUnbuffered(cfg) == 0

\* part_003:205-206: make(chan ..., len(serviceConfigs)) for both channels.
ChanCap(cfg) == Cardinality(cfg.enabled)

\* part_003:219-220: errorChan <- err, which waits while the buffer is
\* full; then the worker returns.
WorkerSendError(k) ==
    /\ worker[k] = "send_error"
    /\ Len(errorChan) < ChanCap(suCfg)
    /\ errorChan' = Append(errorChan, k)
    /\ worker' = [worker EXCEPT ![k] = "done"]
    /\ UNCHANGED << ioVars, gwVars, ssVars, rgVars, suCfg, suPc, built, conn,
                    serviceChan, chansClosed, suServices, suErrors, suIdx,
                    suResult >>

\* part_003:224-228: the connectivity test, whose outcome is only logged.
WorkerTest(k) ==
    /\ worker[k] = "test"
    /\ \E r \in TestResults : conn' = [conn EXCEPT ![k] = r]
    /\ worker' = [worker EXCEPT ![k] = "send_service"]
    /\ UNCHANGED << ioVars, gwVars, ssVars, rgVars, suCfg, suPc, built, errorChan,
                    serviceChan, chansClosed, suServices, suErrors, suIdx,
                    suResult >>

\* part_003:230: serviceChan <- service, which waits while the buffer is
\* full; then the worker returns.
WorkerSendService(k) ==
    /\ worker[k] = "send_service"
    /\ Len(serviceChan) < ChanCap(suCfg)
    /\ serviceChan' = Append(serviceChan, AdapterFor(k, suCfg))
    /\ worker' = [worker EXCEPT ![k] = "done"]
    /\ UNCHANGED << ioVars, gwVars, ssVars, rgVars, suCfg, suPc, built, conn,
                    errorChan, chansClosed, suServices, suErrors, suIdx,
                    suResult >>

\* part_003:235-239: once every worker is done, both channels are closed.
CloseChans ==
    /\ suPc # "load"
    /\ ~chansClosed
    /\ \A k \in suCfg.enabled : worker[k] = "done"
    /\ suCfg.enabled # {}
    /\ chansClosed' = TRUE
    /\ UNCHANGED << ioVars, gwVars, ssVars, rgVars, suCfg, suPc, worker, built, conn,
                    serviceChan, errorChan, suServices, suErrors, suIdx,
                    suResult >>

\* part_003:245-247: for service := range serviceChan.
CollectService ==
    /\ suPc = "collect_services"
    /\ IF serviceChan # << >>
       THEN /\ suServices' = Append(suServices, Head(serviceChan))
            /\ serviceChan' = Tail(serviceChan)
            /\ UNCHANGED suPc
       ELSE /\ chansClosed
            /\ suPc' = "collect_errors"
            /\ UNCHANGED << suServices, serviceChan >>
    /\ UNCHANGED << ioVars, gwVars, ssVars, rgVars, suCfg, worker, built, conn,
                    errorChan, chansClosed, suErrors, suIdx, suResult >>

\* part_003:249-251: for err := range errorChan (closed by now).
CollectErrors ==
    /\ suPc = "collect_errors"
    /\ suErrors' = errorChan
    /\ errorChan' = << >>
    /\ suPc' = "register"
    /\ UNCHANGED << ioVars, gwVars, ssVars, rgVars, suCfg, worker, built, conn,
                    serviceChan, chansClosed, suServices, suIdx, suResult >>

\* part_003:254-256: server.AddService(service) for each collected service
\* (server.go:128-137: s.services[endpoint] = service).
RegisterService ==
    /\ suPc = "register"
    /\ suIdx < Len(suServices)
    /\ LET a == suServices[suIdx + 1] IN
          services' = [services EXCEPT ![GetEndpoint(a)] = a]
    /\ suIdx' = suIdx + 1
    /\ UNCHANGED << ioVars, ssVars, rgVars, startPc, servicesCopy, muxRoutes,
                    serverSet, listening, serverShut, shutPc, shutCopy,
                    shutClosed, closeCalls, gwOps, lastReq, addedLive,
                    lastReplaced, suCfg, suPc, worker, built, conn,
                    serviceChan, errorChan, chansClosed, suServices,
                    suErrors, suResult >>

\* A startup that refuses to go on after any construction error.
StartupResultStrict(nServices, nErrors) ==
    IF nServices = 0 \/ nErrors > 0 THEN "error" ELSE "ok"

\* part_003:259-271: errors are logged; the result is an error only when no
\* service was constructed (main then exits through log.Fatalf, 172-174).
StartupResult(nServices, nErrors) == IF nServices = 0 THEN "error" ELSE "ok"

StartupReturn ==
    /\ suPc = "register"
    /\ suIdx = Len(suServices)
    /\ suResult' = StartupResult(Len(suServices), Len(suErrors))
    /\ suPc' = "done"
    /\ UNCHANGED << ioVars, gwVars, ssVars, rgVars, suCfg, worker, built, conn,
                    serviceChan, errorChan, chansClosed, suServices,
                    suErrors, suIdx >>

SuNext ==
    \/ \E f \in FileConfigs : LoadConfig(f)
    \/ \E k \in Kinds : WorkerCreate(k) \/ WorkerTest(k)
    \/ \E k \in Kinds : WorkerSendError(k) \/ WorkerSendService(k)
    \/ CloseChans
    \/ CollectService
    \/ CollectErrors
    \/ RegisterService
    \/ StartupReturn

(***************************************************************************)
(* Startup claims.                                                         *)
(***************************************************************************)
\* The kinds whose construction succeeded, and the adapters mounted.
Constructed == {k \in Kinds : built[k] = "ok"}
MountedAdapters == {services[p] : p \in Endpoints} \ {None}

\* C17: a construction error of one adapter keeps no other adapter from
\* being constructed (every enabled kind's construction has run when
\* startup returns), and startup fails if and only if no adapter was
\* constructed.
C17_FailsOnlyWithNoAdapter ==
    suPc = "done" =>
        /\ \A k \in suCfg.enabled : built[k] # None
        /\ suResult = "error" <=> Constructed = {}
        /\ suResult = "ok" <=> Constructed # {}

\* Startup went on with one adapter after the other failed construction.
C17_Witness ==
    /\ suPc = "done"
    /\ suResult = "ok"
    /\ \E j, k \in Kinds : built[j] = "ok" /\ built[k] \notin {None, "ok"}

\* C18: when startup has returned, the routing table holds exactly the
\* adapters that passed construction.
C18_TableIsConstructedSet ==
    suPc = "done" =>
        MountedAdapters = {AdapterFor(k, suCfg) : k \in Constructed}

\* C19: when startup has returned, an adapter is mounted if and only if its
\* factory returned without error, whatever its connectivity test said, and
\* startup succeeded if some factory did.
C19_ConnectivityNeverUnmounts ==
    suPc = "done" =>
        /\ \A k \in suCfg.enabled :
              \A r \in TestResults \cup {None} :
                 conn[k] = r =>
                    (AdapterFor(k, suCfg) \in MountedAdapters <=> built[k] = "ok")
        /\ (\E k \in Kinds : built[k] = "ok") => suResult = "ok"

(***************************************************************************)
(* Tool handler and decoding claims.                                       *)
(***************************************************************************)
\* An argument of the call does not pass the handler's validation.
ValidationFails(in) ==
    \/ in.tool \in SqlTools /\ ~Atoi(in.id).ok
    \/ /\ in.tool = "query_range"
       /\ \/ ~IsRFC3339(in.start)
          \/ ~IsRFC3339(in.end)
          \/ ~IsDuration(in.step)
    \/ in.tool = "common_metrics" /\ in.metric \notin MetricQueries

\* Something the call depends on failed: no client, an argument that does
\* not validate, a backend call, or the serialization of the result.
ToolFailure(in) ==
    \/ in.client = "nil"
    \/ ValidationFails(in)
    \/ \E i \in 1 .. 3 : in.steps[i] = "err"
    \/ in.payload = "unmarshalable"

\* C22: a tool handler returns one result and no Go error; the result has
\* one content item and is either an error result carrying a message or a
\* success result carrying the JSON payload, and it is an error result
\* exactly when a validation, a backend call or the serialization failed.
C22_OneEnvelopeNoGoError ==
    ioPc = "tool" =>
        /\ toolResult.err = "nil"
        /\ toolResult.result # NilResult
        /\ Len(toolResult.result.Content) = 1
        /\ toolResult.result.IsError <=>
              toolResult.result.Content[1].text = "message"
        /\ ~toolResult.result.IsError <=>
              toolResult.result.Content[1].text = "json"
        /\ toolResult.result.IsError <=> ToolFailure(toolCall)

\* The backend call succeeded and its value could not be serialized: the
\* handler answered with an error result.
C22_Witness ==
    /\ ioPc = "tool"
    /\ toolCall.client = "client"
    /\ \A i \in 1 .. 3 : toolCall.steps[i] = "ok"
    /\ toolCall.payload = "unmarshalable"
    /\ toolResult.result.IsError
    /\ toolResult.err = "nil"

\* C38: a handler whose argument validation fails returns an error result
\* carrying a message and has called no method of its client (so no
\* request, login or token fetch went to the backend); with a client and
\* valid arguments it does call the client.
C38_InvalidArgumentsReachNoBackend ==
    ioPc = "tool" =>
        /\ ValidationFails(toolCall) =>
              /\ toolResult.result.IsError
              /\ toolResult.result.Content[1].text = "message"
              /\ toolResult.err = "nil"
              /\ toolResult.calls = << >>
        /\ (toolCall.client = "client" /\ ~ValidationFails(toolCall)) =>
              toolResult.calls # << >>

\* A range query with a good start time and a step without a unit was
\* turned down before any query.
C38_Witness ==
    /\ ioPc = "tool"
    /\ toolCall.tool = "query_range"
    /\ toolCall.client = "client"
    /\ IsRFC3339(toolCall.start) /\ IsRFC3339(toolCall.end)
    /\ toolCall.step = "60"
    /\ toolResult.result.IsError
    /\ toolResult.calls = << >>

\* C23: every returned row is as long as the returned column list and its
\* i-th element is the value the backend's row object has under the i-th
\* returned column name, null when the object has no such member, wherever
\* the member stands in the object.
C23_RowsAlignedToColumns ==
    (ioPc = "sql" /\ sqlResult.err = "nil") =>
        /\ Len(sqlResult.Data) = Len(sqlResp.data)
        /\ \A r \in 1 .. Len(sqlResult.Data) :
              /\ Len(sqlResult.Data[r]) = Len(sqlResult.Columns)
              /\ \A i \in 1 .. Len(sqlResult.Columns) :
                    LET at == {j \in 1 .. Len(sqlResp.data[r]) :
                                 sqlResp.data[r][j][1] = sqlResult.Columns[i]}
                    IN /\ \A j \in at :
                             sqlResult.Data[r][i] = sqlResp.data[r][j][2]
                       /\ at = {} => sqlResult.Data[r][i] = JsonNull

\* One row lists its members in the reverse of the column order, another
\* omits a column.
C23_Witness ==
    /\ ioPc = "sql"
    /\ sqlResult.err = "nil"
    /\ Len(sqlResult.Columns) = 2
    /\ \E r \in 1 .. Len(sqlResp.data) :
          /\ Len(sqlResp.data[r]) = 2
          /\ sqlResp.data[r][1][1] = sqlResult.Columns[2]
          /\ sqlResp.data[r][2][1] = sqlResult.Columns[1]
          /\ sqlResp.data[r][1][2] # sqlResp.data[r][2][2]
    /\ \E r \in 1 .. Len(sqlResult.Data) :
          \E i \in 1 .. 2 : sqlResult.Data[r][i] = JsonNull

\* The databases a JSON array of database objects (or nulls) stands for.
IsDatabaseArray(items) == \A i \in 1 .. Len(items) : items[i] # "bad"
ListOf(items) == [i \in 1 .. Len(items) |-> DecodeDatabase(items[i])]
IsEnvelope(body) ==
    body.kind = "object" /\ body.member = "array" /\ IsDatabaseArray(body.items)
IsBareArray(body) == body.kind = "array" /\ IsDatabaseArray(body.items)
HasNoResult(body) ==
    \/ body.kind = "null"
    \/ body.kind = "object" /\ body.member \in {"absent", "null"}

NoSendBlocks ==
    \A k \in Kinds :
        /\ worker[k] = "send_service" => Len(serviceChan) < ChanCap(suCfg)
        /\ worker[k] = "send_error" => Len(errorChan) < ChanCap(suCfg)

\* The channels are closed only after every worker has returned.
ClosedAfterWorkers ==
    chansClosed => \A k \in suCfg.enabled : worker[k] = "done"

\* When startup has returned with services enabled, the channels are
\* closed and each constructed adapter, and nothing else, was passed to
\* AddService once.
EachRegisteredOnce ==
    (suPc = "done" /\ suCfg.enabled # {}) =>
        /\ chansClosed
        /\ suIdx = Len(suServices)
        /\ \A k \in Kinds :
              Count(suServices, AdapterFor(k, suCfg)) =
                 IF k \in suCfg.enabled /\ built[k] = "ok" THEN 1 ELSE 0

\* C37: with every factory and connectivity test returning, startup
\* construction always comes to its end; on the way no worker waits on a
\* send, the channels are closed only after all workers have returned, and
\* each constructed adapter is passed to AddService exactly once.
C37_StartupTerminates ==
    /\ [](NoSendBlocks /\ ClosedAfterWorkers /\ EachRegisteredOnce)
    /\ <>(suPc = "done")

\* Startup returned after both kinds were tried, one constructed and
\* registered, the other failed and its error collected.
C37_Witness ==
    /\ suPc = "done"
    /\ suCfg.enabled = Kinds
    /\ chansClosed
    /\ Len(suServices) = 1
    /\ Len(suErrors) = 1
    /\ suIdx = 1

\* C25: a service whose entry in the configuration file has an empty url
\* or enabled: false is left out of construction: its factory is never
\* invoked and it is never mounted.
C25_EmptyUrlOrDisabledSkipped ==
    \A k \in Kinds :
        (suPc # "load" /\ (suCfg.file[k].url = "" \/ ~suCfg.file[k].enabled)) =>
            /\ built[k] = None
            /\ AdapterFor(k, suCfg) \notin MountedAdapters

\* A freshly constructed Server and a freshly constructed Client.
Init == GwInit /\ SsInit /\ RgInit /\ SuInit /\ IoInit

\* The gateway alone: the client stays as constructed.
SpecGateway == Init /\ [][GwNext]_vars

\* One Superset client and its callers: the gateway stays as constructed.
SpecSession == Init /\ [][SsNext]_vars

\* The registry of package core and the goroutines calling it.
SpecRegistry == Init /\ [][RgNext]_vars

\* Startup of the process: main up to the return of
\* initializeAndRegisterServices.
SpecStartup == Init /\ [][SuNext]_vars

\* The tool handlers and the response decoders alone.
SpecTools == Init /\ [][IoNext]_vars

\* Startup with every goroutine scheduled: a step that can be taken is
\* eventually taken (factories and connectivity tests return).
SpecStartupLive == Init /\ [][SuNext]_vars /\ WF_vars(SuNext)
====
